---- MODULE Spec2Model ----
(***************************************************************************)
(* Model of the special-resource-operator's SpecialResourceModule          *)
(* reconciler (controllers/specialresourcemodule.go) and of the preflight  *)
(* image check (pkg/preflight/preflight.go).                               *)
(*                                                                         *)
(* Template names are Go strings; they are modelled as tuples of byte      *)
(* values so that the comparison used by sort.Slice is the bytewise        *)
(* lexical order of Go's string "<".                                       *)
(***************************************************************************)
EXTENDS Naturals, Integers, Sequences, FiniteSets, TLC

VARIABLES
    \* ---- cluster state seen by the SpecialResourceModule reconciler ----
    chart,            \* srm.Spec.Chart as loaded by Helmer.Load: template names in file order
    persisted,        \* Status.Versions of the SRM as stored in the cluster
    passes,           \* number of Reconcile invocations that reached the version loop
    \* ---- locals of one Reconcile invocation ----
    pc,               \* position of the reconciler: "idle", "loop", "chart", "write"
    resource,         \* resource.Status.Versions, the in-memory copy
    clusterVersions,  \* result of getOCPVersions
    updateList,
    deleteList,
    idx,              \* position in updateList (1-based)
    reconcileErr,     \* what the last Reconcile invocation returned
    \* ---- locals of one reconcileChart invocation ----
    reconciledInput,
    nostate,          \* nostate.Templates
    stateYAMLS,
    result,
    k,                \* position in stateYAMLS (1-based)
    retList,          \* first return value of reconcileChart
    retErr,           \* second return value of reconcileChart (TRUE: non-nil error)
    \* ---- observation of the collaborators ----
    history,          \* TRUE in the specifications that keep applied, resolvedSets
                      \* and statusLost up to date across invocations
    passLog,          \* Helmer.Run calls of the current Reconcile invocation
    runBase,          \* Len(passLog) when the current reconcileChart was entered
    applied,          \* number of successful Helmer.Run calls per <<version, unit>>
    resolvedSets,     \* the key sets of the maps getOCPVersions has returned so far;
                      \* every set once two resolutions have differed
    statusLost,       \* TRUE once a StatusUpdate call has failed
    \* ---- preflight: inputs of one PreflightUpgradeCheck ----
    pfObjs,           \* kinds of objList.Items, in rendered order
    pfLayers,         \* layers of the DaemonSet image, pfLayers[i] is digests[i-1]
    pfExpected,       \* runInfo.KernelFullVersion, the upgrade kernel version
    \* ---- preflight: position and locals ----
    pfPc,             \* "off", "start", "yamls", "ds", "scan", "alert", "done"
    pfI,              \* loop variable i of daemonSetPreflightCheck, 1-based
    pfFetched,        \* layer indices passed to GetLayerByDigest, in call order
    pfRegistryErr,    \* TRUE once GetLayersDigests or GetLayerByDigest returned an error
    pfVerifyCalled,   \* TRUE once daemonSetPreflightCheck was invoked
    pfVerified,       \* verified as returned by handleYAMLsCheck
    pfErr,            \* TRUE when the check returned a non-nil error
    pfAlert,          \* the upgrade alert metric of the custom resource (0 or 1)
    pfAlertCalls,     \* number of SetUpgradeAlert calls made by the check
    \* ---- getImageFromVersion: the upgrade-graph service and the locals ----
    gResp,            \* per stream of Streams, what the service answers when asked
    gPc,              \* "off", "loop", "done"
    gCh,              \* position of the stream loop in Streams (1-based)
    imageURL,
    gQueried,         \* streams a request was sent for, in call order
    gRet,             \* the returned (image, error) pair
    \* ---- getOCPVersions: input, position and locals ----
    watchList,        \* per watch spec, TRUE when resource.Name is not empty
    rsPc,             \* "off", "watch", "objs", "elems", "graph", "info", "done"
    rsW,              \* position of the loop over watchList (1-based)
    rsObjs,           \* number of objects of objs the object loop has not reached yet
    rsResult,         \* number of strings of result the element loop has not reached yet
    rsElem,           \* element, the string being processed
    rsRoute,          \* branch taken for element: "version", "image" or "format"
    rsImage,          \* image
    versionMap,
    rsRet,            \* "none" while running, "ok", or the step whose error was returned
    rsRetMap,         \* the returned map; nil is TRUE for a nil map
    \* ---- getOCPVersions: observation ----
    rsLastGet,        \* outcome of the last getAllResources call
    rsFailures,       \* the steps that have failed during this resolution
    rsNetUsed,        \* TRUE once the upgrade graph or the registry was called
    rsElemNet,        \* upgrade-graph and registry calls made for element
    rsLast,           \* per clusterVersion, the last info getVersionInfoFromImage returned
    rsOverwrote,      \* TRUE once an info was returned for a clusterVersion already in versionMap
    \* ---- DriverToolkitVersion and UpdateInfo: input, position and locals ----
    entries,          \* the version history, one record per entry
    dtInfo0,          \* the node map as it was passed in
    info,             \* the node map, changed in place by UpdateInfo
    dtPc,             \* "off", "scan", "kernel", "rt", "ret", "done"
    dtI,              \* position of the loop over entries (1-based)
    dtExamined,       \* positions of the entries LastLayer was called for, in call order
    dtk,              \* dtk of UpdateInfo
    match,
    dtOutcome,        \* "none" while running, "ok", "notfound" or "exit"
    dtNil,            \* TRUE unless a map was returned
    \* ---- NodeVersionInfo: input, position and locals ----
    items,            \* cache.Node.List.Items: the labels of each node
    nvPc,             \* "off", "loop", "done"
    nvI,              \* position of the loop over the nodes (1-based)
    nvInfo,           \* info
    nvOutcome,        \* "none" while running, "ok" or "error"
    nvNil,            \* TRUE unless a map was returned
    \* ---- filterResources: input, position and locals ----
    selectors,
    fObjs,            \* the parameter objs
    fPc,              \* "off", "start", "loop", "done"
    fS,               \* position of the loop over selectors (1-based)
    fO,               \* position of the loop over fObjs (1-based)
    filteredObjects,
    fRet,             \* the returned objects
    fErr,             \* TRUE when an error was returned
    \* ---- setVersionNodeAffinity: input, position and outcome ----
    obj0,             \* the object as it was passed in
    obj,              \* the object
    nodeNames,
    afPc,             \* "off", "start", "done"
    afErr,            \* TRUE when an error was returned
    \* ---- filter.Predicate: the event, the package variable and the outcome ----
    event,
    Mode,
    pdPc,             \* "off", "start", "done"
    admitted          \* what the function of the predicate returned

rvars == <<chart, persisted, passes, pc, resource, clusterVersions, updateList,
           deleteList, idx, reconcileErr, reconciledInput, nostate, stateYAMLS,
           result, k, retList, retErr, history, passLog, runBase, applied,
           resolvedSets,
           statusLost>>

pfvars == <<pfObjs, pfLayers, pfExpected, pfPc, pfI, pfFetched, pfRegistryErr,
            pfVerifyCalled, pfVerified, pfErr, pfAlert, pfAlertCalls>>

gvars == <<gResp, gPc, gCh, imageURL, gQueried, gRet>>

rsvars == <<watchList, rsPc, rsW, rsObjs, rsResult, rsElem, rsRoute, rsImage,
            versionMap, rsRet, rsRetMap, rsLastGet, rsFailures, rsNetUsed,
            rsElemNet, rsLast, rsOverwrote>>

dtvars == <<entries, dtInfo0, info, dtPc, dtI, dtExamined, dtk, match,
             dtOutcome, dtNil>>

nvvars == <<items, nvPc, nvI, nvInfo, nvOutcome, nvNil>>

fvars == <<selectors, fObjs, fPc, fS, fO, filteredObjects, fRet, fErr>>

afvars == <<obj0, obj, nodeNames, afPc, afErr>>

pdvars == <<event, Mode, pdPc, admitted>>

\* the variables outside each of the groups
nonrvars == <<pfvars, gvars, rsvars, dtvars, nvvars, fvars, afvars, pdvars>>
nonpfvars == <<rvars, gvars, rsvars, dtvars, nvvars, fvars, afvars, pdvars>>
nongvars == <<rvars, pfvars, rsvars, dtvars, nvvars, fvars, afvars, pdvars>>
nonrsvars == <<rvars, pfvars, gvars, dtvars, nvvars, fvars, afvars, pdvars>>
nondtvars == <<rvars, pfvars, gvars, rsvars, nvvars, fvars, afvars, pdvars>>
nonnvvars == <<rvars, pfvars, gvars, rsvars, dtvars, fvars, afvars, pdvars>>
nonfvars == <<rvars, pfvars, gvars, rsvars, dtvars, nvvars, afvars, pdvars>>
nonafvars == <<rvars, pfvars, gvars, rsvars, dtvars, nvvars, fvars, pdvars>>
nonpdvars == <<rvars, pfvars, gvars, rsvars, dtvars, nvvars, fvars, afvars>>

vars == <<rvars, pfvars, gvars, rsvars, dtvars, nvvars, fvars, afvars, pdvars>>

----------------------------------------------------------------------------
(* Bounds *)

MaxPasses == 2
MaxLayers == 3
MaxObjs == 2
MaxNodes == 2
MaxWatch == 2
MaxWatchObjs == 2
MaxElems == 2
MaxHistory == 3
MaxClusterNodes == 2
MaxSelectors == 2
MaxFilterObjs == 2
MaxTerms == 2
MaxNames == 2
MaxRefs == 2

----------------------------------------------------------------------------
(* Template names and cluster versions used as inputs *)

\* "10-a", "20-b", "30-c" and the regular template "crd" as byte tuples
Name10a == <<49, 48, 45, 97>>
Name20b == <<50, 48, 45, 98>>
Name30c == <<51, 48, 45, 99>>
NameCrd == <<99, 114, 100>>

TemplateNames == {Name10a, Name20b, Name30c, NameCrd}

Versions == {"v1", "v2"}

Range(s) == {s[i] : i \in 1..Len(s)}

\* all orders in which the elements of a finite set can be enumerated
Perms(S) == {s \in [1..Cardinality(S) -> S] : \A i, j \in 1..Cardinality(S) : s[i] = s[j] => i = j}

StateNames == {n \in TemplateNames : n # NameCrd}

\* the charts Helmer.Load can return: the state units of any subset in any file
\* order, alone or after the regular template
Charts == LET units == UNION {Perms(S) : S \in SUBSET StateNames}
          IN  units \cup {<<NameCrd>> \o c : c \in units}

----------------------------------------------------------------------------
(* Pure helpers *)

\* Go's string comparison a < b
RECURSIVE LexLess(_, _)
LexLess(a, b) ==
    IF a = <<>> THEN b # <<>>
    ELSE IF b = <<>> THEN FALSE
    ELSE IF a[1] # b[1] THEN a[1] < b[1]
    ELSE LexLess(Tail(a), Tail(b))

\* Assets.ValidStateName: the state-unit naming convention (leading digit)
ValidStateName(name) == Len(name) > 0 /\ name[1] \in 48..57

\* insertion of one name into a sequence sorted by LexLess
RECURSIVE InsertByName(_, _)
InsertByName(s, x) ==
    IF s = <<>> THEN <<x>>
    ELSE IF LexLess(x, s[1]) THEN <<x>> \o s
    ELSE <<s[1]>> \o InsertByName(Tail(s), x)

\* variant of SortByName: the state units are left in file order
SortByName_Unsorted(s) == s

\* sort.Slice(stateYAMLS, func(i, j) { return stateYAMLS[i].Name < stateYAMLS[j].Name })
RECURSIVE SortByName(_)
SortByName(s) ==
    IF s = <<>> THEN <<>>
    ELSE InsertByName(SortByName(Tail(s)), s[1])

\* variant of SelectSeq2: reconciledInputMap is not consulted, every state unit
\* is queued for apply
RECURSIVE SelectSeq2_NoSkip(_, _, _)
SelectSeq2_NoSkip(s, inputMap, part) ==
    IF s = <<>> THEN <<>>
    ELSE LET t == s[1]
             where == IF ValidStateName(t) THEN "state" ELSE "nostate"
         IN  (IF where = part THEN <<t>> ELSE <<>>) \o SelectSeq2_NoSkip(Tail(s), inputMap, part)

\* the three-way partition of c.Templates made by reconcileChart's first loop;
\* each part keeps the order of c.Templates
RECURSIVE SelectSeq2(_, _, _)
SelectSeq2(s, inputMap, part) ==
    IF s = <<>> THEN <<>>
    ELSE LET t == s[1]
             where == IF ValidStateName(t)
                      THEN (IF t \in inputMap THEN "result" ELSE "state")
                      ELSE "nostate"
         IN  (IF where = part THEN <<t>> ELSE <<>>) \o SelectSeq2(Tail(s), inputMap, part)

\* OCPVersionInfo{}: the zero value
ZeroOCPVersionInfo == [ClusterVersion |-> ""]

\* data, ok := clusterVersions[resourceVersion]
Lookup(m, key) == IF key \in DOMAIN m THEN m[key] ELSE ZeroOCPVersionInfo

\* m[key] = value on a Go map
MapSet(m, key, value) == [x \in (DOMAIN m) \cup {key} |-> IF x = key THEN value ELSE m[x]]

\* SpecialResourceModuleVersionStatus built at the end of one version's attempt
VersionStatus(reconciledList) ==
    [ReconciledTemplates |-> reconciledList, Complete |-> (Len(reconciledList) = 0)]

EmptyMap == [x \in {} |-> ZeroOCPVersionInfo]

----------------------------------------------------------------------------
(* Initial state: a freshly created SpecialResourceModule, no status yet *)

RInitLocals(observed) ==
    /\ history = observed
    /\ passes = 0
    /\ pc = "idle"
    /\ resource = EmptyMap
    /\ clusterVersions = EmptyMap
    /\ updateList = <<>>
    /\ deleteList = <<>>
    /\ idx = 1
    /\ reconcileErr = "none"
    /\ reconciledInput = <<>>
    /\ nostate = <<>>
    /\ stateYAMLS = <<>>
    /\ result = <<>>
    /\ k = 1
    /\ retList = <<>>
    /\ retErr = FALSE
    /\ passLog = <<>>
    /\ runBase = 0
    /\ applied = [p \in Versions \X TemplateNames |-> 0]
    /\ resolvedSets = {}
    /\ statusLost = FALSE

\* no preflight check is running
PfOff ==
    /\ pfObjs = <<>>
    /\ pfLayers = <<>>
    /\ pfExpected = "K1"
    /\ pfPc = "off"
    /\ pfI = 0
    /\ pfFetched = <<>>
    /\ pfRegistryErr = FALSE
    /\ pfVerifyCalled = FALSE
    /\ pfVerified = FALSE
    /\ pfErr = FALSE
    /\ pfAlert = 0
    /\ pfAlertCalls = 0

\* no getImageFromVersion call is running
GOff ==
    /\ gResp = <<>>
    /\ gPc = "off"
    /\ gCh = 0
    /\ imageURL = ""
    /\ gQueried = <<>>
    /\ gRet = [image |-> "", err |-> "none"]

\* the locals of getOCPVersions before its first statement
RsLocals ==
    /\ rsW = 1
    /\ rsObjs = 0
    /\ rsResult = 0
    /\ rsElem = <<>>
    /\ rsRoute = "none"
    /\ rsImage = <<>>
    /\ versionMap = EmptyMap
    /\ rsRet = "none"
    /\ rsRetMap = [nil |-> TRUE, m |-> EmptyMap]
    /\ rsLastGet = "none"
    /\ rsFailures = {}
    /\ rsNetUsed = FALSE
    /\ rsElemNet = 0
    /\ rsLast = EmptyMap
    /\ rsOverwrote = FALSE

\* no getOCPVersions call is being followed
RsOff ==
    /\ watchList = <<>>
    /\ rsPc = "off"
    /\ RsLocals

\* no DriverToolkitVersion call is being followed
DtOff ==
    /\ entries = <<>>
    /\ dtInfo0 = EmptyMap
    /\ info = EmptyMap
    /\ dtPc = "off"
    /\ dtI = 0
    /\ dtExamined = <<>>
    /\ dtk = [ImageURL |-> "", KernelFullVersion |-> <<>>, RTKernelFullVersion |-> <<>>,
              OSVersion |-> <<>>]
    /\ match = FALSE
    /\ dtOutcome = "none"
    /\ dtNil = TRUE

\* no NodeVersionInfo call is being followed
NvOff ==
    /\ items = <<>>
    /\ nvPc = "off"
    /\ nvI = 0
    /\ nvInfo = EmptyMap
    /\ nvOutcome = "none"
    /\ nvNil = TRUE

\* no filterResources call is being followed
FOff ==
    /\ selectors = <<>>
    /\ fObjs = <<>>
    /\ fPc = "off"
    /\ fS = 0
    /\ fO = 0
    /\ filteredObjects = <<>>
    /\ fRet = <<>>
    /\ fErr = FALSE

\* no setVersionNodeAffinity call is being followed
AfOff ==
    /\ obj0 = <<>>
    /\ obj = <<>>
    /\ nodeNames = <<>>
    /\ afPc = "off"
    /\ afErr = FALSE

\* no event is being followed
PdOff ==
    /\ event = <<>>
    /\ Mode = ""
    /\ pdPc = "off"
    /\ admitted = FALSE

Init ==
    /\ chart \in Charts
    /\ persisted = EmptyMap
    /\ RInitLocals(FALSE)
    /\ PdOff
    /\ AfOff
    /\ FOff
    /\ NvOff
    /\ DtOff
    /\ PfOff
    /\ GOff
    /\ RsOff

----------------------------------------------------------------------------
(* Reconcile *)

CurVersion == updateList[idx].ClusterVersion

\* Reconcile returns before the version loop: List fails, the SRM is not found
\* or is being deleted, ReconcileWatches fails, or getOCPVersions fails
\* the locals of reconcileChart before its first invocation in a Reconcile
FreshChartLocals ==
    /\ reconciledInput' = <<>>
    /\ nostate' = <<>>
    /\ stateYAMLS' = <<>>
    /\ result' = <<>>
    /\ k' = 1
    /\ retList' = <<>>
    /\ retErr' = FALSE
    /\ runBase' = 0

ReconcileEarlyReturn(why) ==
    /\ pc = "idle"
    /\ reconcileErr' = why
    /\ resource' = EmptyMap
    /\ clusterVersions' = EmptyMap
    /\ updateList' = <<>>
    /\ deleteList' = <<>>
    /\ idx' = 1
    /\ FreshChartLocals
    /\ passLog' = <<>>
    /\ UNCHANGED <<nonrvars, history, statusLost, resolvedSets, chart, persisted, passes,
                   pc, applied>>

\* Reconcile up to the version loop: cv is the key set of the map returned by
\* getOCPVersions, statusOrder and versionOrder the iteration orders of the
\* two Go maps
ReconcileStart(cv, statusOrder, versionOrder) ==
    /\ pc = "idle"
    /\ passes < MaxPasses
    /\ statusOrder \in Perms(DOMAIN persisted)
    /\ versionOrder \in Perms(cv)
    /\ passes' = passes + 1
    /\ resource' = persisted
    /\ LET cvs == [v \in cv |-> [ClusterVersion |-> v]]
           kept == SelectSeq(statusOrder, LAMBDA v : v \in DOMAIN cvs)
           gone == SelectSeq(statusOrder, LAMBDA v : v \notin DOMAIN cvs)
       IN  /\ clusterVersions' = cvs
           /\ updateList' = [i \in 1..Len(kept) |-> Lookup(cvs, kept[i])]
                            \o [i \in 1..Len(versionOrder) |-> cvs[versionOrder[i]]]
           /\ deleteList' = [i \in 1..Len(gone) |-> Lookup(cvs, gone[i])]
    /\ idx' = 1
    /\ pc' = "loop"
    /\ reconcileErr' = "none"
    /\ passLog' = <<>>
    /\ FreshChartLocals
    /\ resolvedSets' = IF ~history THEN resolvedSets
                       ELSE IF resolvedSets \subseteq {cv} THEN {cv}
                       ELSE SUBSET Versions
    /\ UNCHANGED <<nonrvars, history, statusLost, chart, persisted, applied>>

\* the version loop is exhausted: "Done"
ReconcileDone ==
    /\ pc = "loop"
    /\ idx > Len(updateList)
    /\ pc' = "idle"
    /\ reconcileErr' = "none"
    /\ UNCHANGED <<nonrvars, history, statusLost, resolvedSets, chart, persisted, passes,
                   resource, clusterVersions, updateList, deleteList, idx,
                   reconciledInput, nostate, stateYAMLS, result, k, retList, retErr,
                   passLog, runBase, applied>>

\* inputList of the current element
InputList ==
    IF CurVersion \in DOMAIN resource
    THEN resource[CurVersion].ReconciledTemplates
    ELSE <<>>

\* reconcileChart is entered and Helmer.Load fails
ChartLoadFail ==
    /\ pc = "loop"
    /\ idx <= Len(updateList)
    /\ reconciledInput' = InputList
    /\ result' = <<>>
    /\ nostate' = <<>>
    /\ stateYAMLS' = <<>>
    /\ k' = 1
    /\ runBase' = Len(passLog)
    /\ retList' = <<>>
    /\ retErr' = TRUE
    /\ pc' = "write"
    /\ UNCHANGED <<nonrvars, history, statusLost, resolvedSets, chart, persisted, passes,
                   resource, clusterVersions, updateList, deleteList, idx,
                   reconcileErr, passLog, applied>>

\* reconcileChart is entered: load, partition the templates, sort the state units
ChartBegin ==
    /\ pc = "loop"
    /\ idx <= Len(updateList)
    /\ reconciledInput' = InputList
    /\ LET inputMap == Range(InputList)
       IN  /\ result' = SelectSeq2(chart, inputMap, "result")
           /\ nostate' = SelectSeq2(chart, inputMap, "nostate")
           /\ stateYAMLS' = SortByName(SelectSeq2(chart, inputMap, "state"))
    /\ k' = 1
    /\ runBase' = Len(passLog)
    /\ pc' = "chart"
    /\ UNCHANGED <<nonrvars, history, statusLost, resolvedSets, chart, persisted, passes,
                   resource, clusterVersions, updateList, deleteList, idx,
                   reconcileErr, retList, retErr, passLog, applied>>

\* variant of RunCall: the state templates of the earlier steps stay in the bundle
RunCall_Accumulate(ok) ==
    [version |-> CurVersion,
     name |-> stateYAMLS[k],
     step |-> nostate \o SubSeq(stateYAMLS, 1, k),
     ok |-> ok]

\* one Helmer.Run call as seen by the collaborator
RunCall(ok) ==
    [version |-> CurVersion,
     name |-> stateYAMLS[k],
     step |-> Append(nostate, stateYAMLS[k]),
     ok |-> ok]

\* one iteration of the loop over stateYAMLS, Helmer.Run succeeds
HelmerRunOk ==
    /\ pc = "chart"
    /\ k <= Len(stateYAMLS)
    /\ passLog' = Append(passLog, RunCall(TRUE))
    /\ applied' = IF history
                  THEN [applied EXCEPT ![<<CurVersion, stateYAMLS[k]>>] = @ + 1]
                  ELSE applied
    /\ result' = Append(result, stateYAMLS[k])
    /\ k' = k + 1
    /\ UNCHANGED <<nonrvars, history, statusLost, resolvedSets, chart, persisted, passes,
                   pc, resource, clusterVersions, updateList, deleteList, idx,
                   reconcileErr, reconciledInput, nostate, stateYAMLS, retList, retErr,
                   runBase>>

\* variant of HelmerRunFail: the error is logged and the loop goes on
HelmerRunFail_Continue ==
    /\ pc = "chart"
    /\ k <= Len(stateYAMLS)
    /\ passLog' = Append(passLog, RunCall(FALSE))
    /\ k' = k + 1
    /\ UNCHANGED <<nonrvars, history, statusLost, resolvedSets, chart, persisted, passes,
                   pc, resource, clusterVersions, updateList, deleteList, idx,
                   reconcileErr, reconciledInput, nostate, stateYAMLS, result, retList,
                   retErr, runBase, applied>>

\* variant of HelmerRunFail: the names accumulated so far are not returned
HelmerRunFail_DropResult ==
    /\ pc = "chart"
    /\ k <= Len(stateYAMLS)
    /\ passLog' = Append(passLog, RunCall(FALSE))
    /\ retList' = <<>>
    /\ retErr' = TRUE
    /\ pc' = "write"
    /\ UNCHANGED <<nonrvars, history, statusLost, resolvedSets, chart, persisted, passes,
                   resource, clusterVersions, updateList, deleteList, idx,
                   reconcileErr, reconciledInput, nostate, stateYAMLS, result, k,
                   runBase, applied>>

\* one iteration of the loop over stateYAMLS, Helmer.Run fails
HelmerRunFail ==
    /\ pc = "chart"
    /\ k <= Len(stateYAMLS)
    /\ passLog' = Append(passLog, RunCall(FALSE))
    /\ retList' = result
    /\ retErr' = TRUE
    /\ pc' = "write"
    /\ UNCHANGED <<nonrvars, history, statusLost, resolvedSets, chart, persisted, passes,
                   resource, clusterVersions, updateList, deleteList, idx,
                   reconcileErr, reconciledInput, nostate, stateYAMLS, result, k,
                   runBase, applied>>

\* one iteration of the loop over stateYAMLS, CoalesceValues or ToUnstructured fails
CoalesceFail ==
    /\ pc = "chart"
    /\ k <= Len(stateYAMLS)
    /\ retList' = result
    /\ retErr' = TRUE
    /\ pc' = "write"
    /\ UNCHANGED <<nonrvars, history, statusLost, resolvedSets, chart, persisted, passes,
                   resource, clusterVersions, updateList, deleteList, idx,
                   reconcileErr, reconciledInput, nostate, stateYAMLS, result, k,
                   passLog, runBase, applied>>

\* the loop over stateYAMLS is exhausted: return nil, nil
ChartReturn ==
    /\ pc = "chart"
    /\ k > Len(stateYAMLS)
    /\ retList' = <<>>
    /\ retErr' = FALSE
    /\ pc' = "write"
    /\ UNCHANGED <<nonrvars, history, statusLost, resolvedSets, chart, persisted, passes,
                   resource, clusterVersions, updateList, deleteList, idx,
                   reconcileErr, reconciledInput, nostate, stateYAMLS, result, k,
                   passLog, runBase, applied>>

\* variant of StatusUpdateOk: after a failed attempt the loop goes on to the next version
StatusUpdateOk_NextVersion ==
    /\ pc = "write"
    /\ resource' = MapSet(resource, CurVersion, VersionStatus(retList))
    /\ persisted' = resource'
    /\ pc' = "loop"
    /\ reconcileErr' = reconcileErr
    /\ idx' = idx + 1
    /\ UNCHANGED <<nonrvars, history, statusLost, resolvedSets, chart, passes,
                   clusterVersions, updateList, deleteList, reconciledInput, nostate,
                   stateYAMLS, result, k, retList, retErr, passLog, runBase, applied>>

\* variant of StatusUpdateOk: a failed attempt is returned without writing the status
StatusUpdateOk_SkipOnError ==
    /\ pc = "write"
    /\ IF retErr
       THEN /\ pc' = "idle"
            /\ reconcileErr' = "chart"
            /\ idx' = idx
            /\ UNCHANGED <<resource, persisted>>
       ELSE /\ resource' = MapSet(resource, CurVersion, VersionStatus(retList))
            /\ persisted' = resource'
            /\ pc' = "loop"
            /\ reconcileErr' = reconcileErr
            /\ idx' = idx + 1
    /\ UNCHANGED <<nonrvars, history, statusLost, resolvedSets, chart, passes,
                   clusterVersions, updateList, deleteList, reconciledInput, nostate,
                   stateYAMLS, result, k, retList, retErr, passLog, runBase, applied>>

\* the status of the current version is set and StatusUpdate succeeds
StatusUpdateOk ==
    /\ pc = "write"
    /\ resource' = MapSet(resource, CurVersion, VersionStatus(retList))
    /\ persisted' = resource'
    /\ IF retErr
       THEN /\ pc' = "idle"
            /\ reconcileErr' = "chart"
            /\ idx' = idx
       ELSE /\ pc' = "loop"
            /\ reconcileErr' = reconcileErr
            /\ idx' = idx + 1
    /\ UNCHANGED <<nonrvars, history, statusLost, resolvedSets, chart, passes,
                   clusterVersions, updateList, deleteList, reconciledInput, nostate,
                   stateYAMLS, result, k, retList, retErr, passLog, runBase, applied>>

\* the status of the current version is set and StatusUpdate fails
StatusUpdateFail ==
    /\ pc = "write"
    /\ resource' = MapSet(resource, CurVersion, VersionStatus(retList))
    /\ pc' = "idle"
    /\ reconcileErr' = "status"
    /\ statusLost' = history
    /\ UNCHANGED <<nonrvars, history, resolvedSets, chart, persisted, passes,
                   clusterVersions, updateList, deleteList, idx, reconciledInput,
                   nostate, stateYAMLS, result, k, retList, retErr, passLog, runBase,
                   applied>>

Next ==
    \/ \E why \in {"none", "early"} : ReconcileEarlyReturn(why)
    \/ \E cv \in SUBSET Versions :
         \E so \in Perms(DOMAIN persisted), vo \in Perms(cv) : ReconcileStart(cv, so, vo)
    \/ ReconcileDone
    \/ ChartLoadFail
    \/ ChartBegin
    \/ HelmerRunOk
    \/ HelmerRunFail
    \/ CoalesceFail
    \/ ChartReturn
    \/ StatusUpdateOk
    \/ StatusUpdateFail

Spec == Init /\ [][Next]_vars

\* the same reconciler, observed across invocations
InitHistory ==
    /\ chart \in Charts
    /\ persisted = EmptyMap
    /\ RInitLocals(TRUE)
    /\ PdOff
    /\ AfOff
    /\ FOff
    /\ NvOff
    /\ DtOff
    /\ PfOff
    /\ GOff
    /\ RsOff

SpecHistory == InitHistory /\ [][Next]_vars

----------------------------------------------------------------------------
(* Reconcile over a SpecialResourceModule that already carries a status:  *)
(* for every version a lexical prefix of the state units, as left behind  *)
(* by earlier invocations (a failed unit may since have been dropped from *)
(* the chart, so the prefix can cover every state unit).                  *)

StateUnits(c) == SelectSeq(c, ValidStateName)

PrefixStatuses(c) ==
    LET sorted == SortByName(StateUnits(c))
    IN  {VersionStatus(SubSeq(sorted, 1, n)) : n \in 0..Len(sorted)}

InitResume ==
    /\ chart \in Charts
    /\ persisted \in UNION {[D -> PrefixStatuses(chart)] : D \in SUBSET Versions}
    /\ RInitLocals(FALSE)
    /\ PdOff
    /\ AfOff
    /\ FOff
    /\ NvOff
    /\ DtOff
    /\ PfOff
    /\ GOff
    /\ RsOff

SpecResume == InitResume /\ [][Next]_vars

----------------------------------------------------------------------------
(* Preflight: PreflightUpgradeCheck, handleYAMLsCheck, daemonSetPreflightCheck *)

Kinds == {"BuildConfig", "DaemonSet", "ConfigMap"}

\* what the registry holds for one layer: "err" GetLayerByDigest fails,
\* "none" the layer has no toolkit release, otherwise the kernelFullVersion
\* of the toolkit release found in it
LayerKinds == {"err", "none", "K1", "K2"}

SeqsUpTo(S, n) == UNION {[1..m -> S] : m \in 0..n}

InitPreflight ==
    /\ chart = <<>>
    /\ persisted = EmptyMap
    /\ RInitLocals(FALSE)
    /\ PdOff
    /\ AfOff
    /\ FOff
    /\ NvOff
    /\ DtOff
    /\ pfObjs \in SeqsUpTo(Kinds, MaxObjs)
    /\ pfLayers \in SeqsUpTo(LayerKinds, MaxLayers)
    /\ pfExpected = "K1"
    /\ GOff
    /\ RsOff
    /\ pfPc = "start"
    /\ pfI = 0
    /\ pfFetched = <<>>
    /\ pfRegistryErr = FALSE
    /\ pfVerifyCalled = FALSE
    /\ pfVerified = FALSE
    /\ pfErr = FALSE
    /\ pfAlert \in {0, 1}
    /\ pfAlertCalls = 0

\* PreflightUpgradeCheck: Helmer.Load or processFullChartTemplates fails
PfChartFail ==
    /\ pfPc = "start"
    /\ pfErr' = TRUE
    /\ pfPc' = "done"
    /\ UNCHANGED <<nonpfvars, pfObjs, pfLayers, pfExpected, pfI, pfFetched, pfRegistryErr,
                   pfVerifyCalled, pfVerified, pfAlert, pfAlertCalls>>

\* PreflightUpgradeCheck: the chart is loaded and rendered, handleYAMLsCheck is called
PfChartRendered ==
    /\ pfPc = "start"
    /\ pfPc' = "yamls"
    /\ UNCHANGED <<nonpfvars, pfObjs, pfLayers, pfExpected, pfI, pfFetched, pfRegistryErr,
                   pfVerifyCalled, pfVerified, pfErr, pfAlert, pfAlertCalls>>

\* handleYAMLsCheck: GetObjectsFromYAML fails
PfObjectsFail ==
    /\ pfPc = "yamls"
    /\ pfVerified' = FALSE
    /\ pfErr' = TRUE
    /\ pfPc' = "done"
    /\ UNCHANGED <<nonpfvars, pfObjs, pfLayers, pfExpected, pfI, pfFetched, pfRegistryErr,
                   pfVerifyCalled, pfAlert, pfAlertCalls>>

\* index of the first object at which the loop of handleYAMLsCheck breaks, 0 if none
FirstDecisive(objs) ==
    LET hits == {i \in 1..Len(objs) : objs[i] \in {"BuildConfig", "DaemonSet"}}
    IN  IF hits = {} THEN 0 ELSE CHOOSE i \in hits : \A j \in hits : i <= j

\* handleYAMLsCheck: the loop over objList.Items up to its break
PfHandleYAMLs ==
    /\ pfPc = "yamls"
    /\ LET d == FirstDecisive(pfObjs)
       IN  IF d # 0 /\ pfObjs[d] = "DaemonSet"
           THEN /\ pfVerifyCalled' = TRUE
                /\ pfVerified' = pfVerified
                /\ pfPc' = "ds"
           ELSE /\ pfVerifyCalled' = pfVerifyCalled
                /\ pfVerified' = TRUE
                /\ pfPc' = "alert"
    /\ UNCHANGED <<nonpfvars, pfObjs, pfLayers, pfExpected, pfI, pfFetched, pfRegistryErr,
                   pfErr, pfAlert, pfAlertCalls>>

\* daemonSetPreflightCheck: FromUnstructured fails or the DaemonSet has no container
PfDaemonSetInvalid ==
    /\ pfPc = "ds"
    /\ pfVerified' = FALSE
    /\ pfErr' = TRUE
    /\ pfPc' = "done"
    /\ UNCHANGED <<nonpfvars, pfObjs, pfLayers, pfExpected, pfI, pfFetched, pfRegistryErr,
                   pfVerifyCalled, pfAlert, pfAlertCalls>>

\* daemonSetPreflightCheck: GetLayersDigests fails
PfDigestsFail ==
    /\ pfPc = "ds"
    /\ pfRegistryErr' = TRUE
    /\ pfVerified' = FALSE
    /\ pfErr' = FALSE
    /\ pfPc' = "alert"
    /\ UNCHANGED <<nonpfvars, pfObjs, pfLayers, pfExpected, pfI, pfFetched, pfVerifyCalled,
                   pfAlert, pfAlertCalls>>

\* daemonSetPreflightCheck: GetLayersDigests succeeds, i := len(digests) - 1
PfDigestsOk ==
    /\ pfPc = "ds"
    /\ pfI' = Len(pfLayers)
    /\ pfPc' = "scan"
    /\ UNCHANGED <<nonpfvars, pfObjs, pfLayers, pfExpected, pfFetched, pfRegistryErr,
                   pfVerifyCalled, pfVerified, pfErr, pfAlert, pfAlertCalls>>

\* one iteration: GetLayerByDigest fails
PfLayerFetchFail ==
    /\ pfPc = "scan"
    /\ pfI >= 1
    /\ pfLayers[pfI] = "err"
    /\ pfFetched' = Append(pfFetched, pfI)
    /\ pfRegistryErr' = TRUE
    /\ pfVerified' = FALSE
    /\ pfErr' = FALSE
    /\ pfPc' = "alert"
    /\ UNCHANGED <<nonpfvars, pfObjs, pfLayers, pfExpected, pfI, pfVerifyCalled, pfAlert,
                   pfAlertCalls>>

\* one iteration: ExtractToolkitRelease fails, continue with the next older layer
PfLayerNoToolkit ==
    /\ pfPc = "scan"
    /\ pfI >= 1
    /\ pfLayers[pfI] = "none"
    /\ pfFetched' = Append(pfFetched, pfI)
    /\ pfI' = pfI - 1
    /\ UNCHANGED <<nonpfvars, pfObjs, pfLayers, pfExpected, pfPc, pfRegistryErr,
                   pfVerifyCalled, pfVerified, pfErr, pfAlert, pfAlertCalls>>

\* variant of PfLayerToolkit: the comparison of the kernel versions is inverted
PfLayerToolkit_Inverted ==
    /\ pfPc = "scan"
    /\ pfI >= 1
    /\ pfLayers[pfI] \notin {"err", "none"}
    /\ pfFetched' = Append(pfFetched, pfI)
    /\ pfVerified' = (pfLayers[pfI] # pfExpected)
    /\ pfErr' = FALSE
    /\ pfPc' = "alert"
    /\ UNCHANGED <<nonpfvars, pfObjs, pfLayers, pfExpected, pfI, pfRegistryErr,
                   pfVerifyCalled, pfAlert, pfAlertCalls>>

\* variant of PfLayerToolkit: a toolkit release of another kernel does not end
\* the scan
PfLayerToolkit_KeepScanning ==
    /\ pfPc = "scan"
    /\ pfI >= 1
    /\ pfLayers[pfI] \notin {"err", "none"}
    /\ pfFetched' = Append(pfFetched, pfI)
    /\ IF pfLayers[pfI] # pfExpected
       THEN /\ pfI' = pfI - 1
            /\ UNCHANGED <<pfVerified, pfErr, pfPc>>
       ELSE /\ pfVerified' = TRUE
            /\ pfErr' = FALSE
            /\ pfPc' = "alert"
            /\ pfI' = pfI
    /\ UNCHANGED <<nonpfvars, pfObjs, pfLayers, pfExpected, pfRegistryErr,
                   pfVerifyCalled, pfAlert, pfAlertCalls>>

\* one iteration: the layer holds a toolkit release, compare and return
PfLayerToolkit ==
    /\ pfPc = "scan"
    /\ pfI >= 1
    /\ pfLayers[pfI] \notin {"err", "none"}
    /\ pfFetched' = Append(pfFetched, pfI)
    /\ pfVerified' = ~(pfLayers[pfI] # pfExpected)
    /\ pfErr' = FALSE
    /\ pfPc' = "alert"
    /\ UNCHANGED <<nonpfvars, pfObjs, pfLayers, pfExpected, pfI, pfRegistryErr,
                   pfVerifyCalled, pfAlert, pfAlertCalls>>

\* the loop over the digests is exhausted: no layer holds a toolkit release
PfScanExhausted ==
    /\ pfPc = "scan"
    /\ pfI < 1
    /\ pfVerified' = FALSE
    /\ pfErr' = FALSE
    /\ pfPc' = "alert"
    /\ UNCHANGED <<nonpfvars, pfObjs, pfLayers, pfExpected, pfI, pfFetched, pfRegistryErr,
                   pfVerifyCalled, pfAlert, pfAlertCalls>>

\* variant of PfAlertUser: the alert is raised on failure and never cleared
PfAlertUser_RaiseOnly ==
    /\ pfPc = "alert"
    /\ pfAlert' = IF pfVerified THEN pfAlert ELSE 1
    /\ pfAlertCalls' = pfAlertCalls + 1
    /\ pfPc' = "done"
    /\ UNCHANGED <<nonpfvars, pfObjs, pfLayers, pfExpected, pfI, pfFetched, pfRegistryErr,
                   pfVerifyCalled, pfVerified, pfErr>>

\* alertUserIfNeeded, then PreflightUpgradeCheck returns nil
PfAlertUser ==
    /\ pfPc = "alert"
    /\ pfAlert' = IF pfVerified THEN 0 ELSE 1
    /\ pfAlertCalls' = pfAlertCalls + 1
    /\ pfPc' = "done"
    /\ UNCHANGED <<nonpfvars, pfObjs, pfLayers, pfExpected, pfI, pfFetched, pfRegistryErr,
                   pfVerifyCalled, pfVerified, pfErr>>

NextPreflight ==
    \/ PfChartFail
    \/ PfChartRendered
    \/ PfObjectsFail
    \/ PfHandleYAMLs
    \/ PfDaemonSetInvalid
    \/ PfDigestsFail
    \/ PfDigestsOk
    \/ PfLayerFetchFail
    \/ PfLayerNoToolkit
    \/ PfLayerToolkit
    \/ PfScanExhausted
    \/ PfAlertUser

SpecPreflight == InitPreflight /\ [][NextPreflight]_vars

----------------------------------------------------------------------------
(* getImageFromVersion: the lookup of a release image in the upgrade graph *)

\* the streams in the order the loop tries them
Streams == <<"fast", "stable", "candidate">>

\* the version asked for (res[0] of the regular expression match) and another
\* version of the same minor release
Full == "4.12.5"
OtherVersion == "4.12.6"

\* versionNode values a graph can hold
Nodes ==
    {[version |-> Full, payload |-> "A"], [version |-> Full, payload |-> "B"],
     [version |-> Full, payload |-> ""], [version |-> OtherVersion, payload |-> "A"]}

\* what the service can answer for one stream: status 200 with a graph, another
\* status code, or a request that fails (client.Do, ReadAll, Unmarshal)
Responses ==
    {[kind |-> "ok", nodes |-> n] : n \in SeqsUpTo(Nodes, MaxNodes)}
        \cup {[kind |-> kd, nodes |-> <<>>] : kd \in {"status", "fail"}}

\* the inner loop over versions.Nodes: the payload of the first node of the
\* requested version that has a payload, cur when there is none
RECURSIVE ScanNodes(_, _)
ScanNodes(nodes, cur) ==
    IF nodes = <<>> THEN cur
    ELSE IF Head(nodes).version = Full /\ Len(Head(nodes).payload) > 0
         THEN Head(nodes).payload
         ELSE ScanNodes(Tail(nodes), cur)

InitGraph ==
    /\ chart = <<>>
    /\ persisted = EmptyMap
    /\ RInitLocals(FALSE)
    /\ PdOff
    /\ AfOff
    /\ FOff
    /\ NvOff
    /\ DtOff
    /\ PfOff
    /\ RsOff
    /\ gResp \in [1..Len(Streams) -> Responses]
    /\ gPc = "loop"
    /\ gCh = 1
    /\ imageURL = ""
    /\ gQueried = <<>>
    /\ gRet = [image |-> "", err |-> "none"]

\* variant of GChannelFail: a stream that cannot be read is skipped
GChannelFail_Skip ==
    /\ gPc = "loop"
    /\ gCh <= Len(Streams)
    /\ gResp[gCh].kind # "ok"
    /\ gQueried' = Append(gQueried, Streams[gCh])
    /\ gCh' = gCh + 1
    /\ UNCHANGED <<nongvars, gResp, imageURL, gPc, gRet>>

\* one iteration whose closure returns an error: the request failed or the
\* status code is not 200
GChannelFail ==
    /\ gPc = "loop"
    /\ gCh <= Len(Streams)
    /\ gResp[gCh].kind # "ok"
    /\ gQueried' = Append(gQueried, Streams[gCh])
    /\ gRet' = [image |-> "", err |-> gResp[gCh].kind]
    /\ gPc' = "done"
    /\ UNCHANGED <<nongvars, gResp, gCh, imageURL>>

\* one iteration with status 200: scan the nodes of the graph
GChannelOK ==
    /\ gPc = "loop"
    /\ gCh <= Len(Streams)
    /\ gResp[gCh].kind = "ok"
    /\ gQueried' = Append(gQueried, Streams[gCh])
    /\ imageURL' = ScanNodes(gResp[gCh].nodes, imageURL)
    /\ gCh' = gCh + 1
    /\ UNCHANGED <<nongvars, gResp, gPc, gRet>>

\* after the loop: no stream had the version
GVersionNotFound ==
    /\ gPc = "loop"
    /\ gCh > Len(Streams)
    /\ Len(imageURL) = 0
    /\ gRet' = [image |-> imageURL, err |-> "notfound"]
    /\ gPc' = "done"
    /\ UNCHANGED <<nongvars, gResp, gCh, imageURL, gQueried>>

\* after the loop: return the image
GReturnImage ==
    /\ gPc = "loop"
    /\ gCh > Len(Streams)
    /\ Len(imageURL) # 0
    /\ gRet' = [image |-> imageURL, err |-> "none"]
    /\ gPc' = "done"
    /\ UNCHANGED <<nongvars, gResp, gCh, imageURL, gQueried>>

NextGraph ==
    \/ GChannelFail
    \/ GChannelOK
    \/ GVersionNotFound
    \/ GReturnImage

SpecGraph == InitGraph /\ [][NextGraph]_vars

----------------------------------------------------------------------------
(* getOCPVersions: the resolution of the watched objects to release images *)

\* Strings found at the watched path, as tuples of byte values.
Elem4_12_5 == <<52, 46, 49, 50, 46, 53>>                    \* "4.12.5"
Elem1_0_0rc1 == <<49, 46, 48, 46, 48, 45, 114, 99, 46, 49>>  \* "1.0.0-rc.1"
Elem1_0_0b1 == <<49, 46, 48, 46, 48, 43, 98, 49>>            \* "1.0.0+b1"
ElemDigest == <<114, 47, 105, 64, 115>>                     \* "r/i@s"
ElemTag == <<49, 46, 50, 46, 51, 58, 49>>                   \* "1.2.3:1"
ElemLatest == <<108, 97, 116, 101, 115, 116>>               \* "latest"
Elem4_12 == <<52, 46, 49, 50>>                              \* "4.12"
Elem01_2_3 == <<48, 49, 46, 50, 46, 51>>                    \* "01.2.3"
Elem1_2_3dash == <<49, 46, 50, 46, 51, 45>>                 \* "1.2.3-"
Elem1_2_3pre01 == <<49, 46, 50, 46, 51, 45, 48, 49>>        \* "1.2.3-01"
ElemEmpty == <<>>                                           \* ""

Elements ==
    {Elem4_12_5, Elem1_0_0rc1, Elem1_0_0b1, ElemDigest, ElemTag, ElemLatest,
     Elem4_12, Elem01_2_3, Elem1_2_3dash, Elem1_2_3pre01, ElemEmpty}

\* the payload the upgrade graph holds for a version: "q/r@p"
GraphPayload == <<113, 47, 114, 64, 112>>

\* \d
IsDigit(c) == c \in 48..57

\* [0-9a-zA-Z-]
IsIdentChar(c) == IsDigit(c) \/ c \in 65..90 \/ c \in 97..122 \/ c = 45

\* strings.Contains(s, c) for a one-byte c
StringsContains(s, c) == \E i \in 1..Len(s) : s[i] = c

\* position of the first c in s, 0 when there is none
IndexOf(s, c) ==
    IF StringsContains(s, c)
    THEN CHOOSE i \in 1..Len(s) : s[i] = c /\ \A j \in 1..(i - 1) : s[j] # c
    ELSE 0

\* the pieces of s between the occurrences of c
RECURSIVE SplitOn(_, _)
SplitOn(s, c) ==
    LET i == IndexOf(s, c)
    IN  IF i = 0 THEN <<s>>
        ELSE <<SubSeq(s, 1, i - 1)>> \o SplitOn(SubSeq(s, i + 1, Len(s)), c)

\* 0|[1-9]\d*
NumericId(s) ==
    /\ Len(s) >= 1
    /\ \A i \in 1..Len(s) : IsDigit(s[i])
    /\ (Len(s) > 1 => s[1] # 48)

\* 0|[1-9]\d*|\d*[a-zA-Z-][0-9a-zA-Z-]*
PrereleaseId(s) ==
    /\ Len(s) >= 1
    /\ \A i \in 1..Len(s) : IsIdentChar(s[i])
    /\ ((\A i \in 1..Len(s) : IsDigit(s[i])) => NumericId(s))

\* [0-9a-zA-Z-]+
BuildId(s) ==
    /\ Len(s) >= 1
    /\ \A i \in 1..Len(s) : IsIdentChar(s[i])

\* versionRegex.MatchString(s). The expression is anchored at both ends; the
\* build part starts at the first "+", the pre-release part at the first "-"
\* before it, and what is left is the three numbers.
VersionRegexMatchString(s) ==
    LET plus == IndexOf(s, 43)
        left == IF plus = 0 THEN s ELSE SubSeq(s, 1, plus - 1)
        build == IF plus = 0 THEN <<>> ELSE SubSeq(s, plus + 1, Len(s))
        dash == IndexOf(left, 45)
        core == IF dash = 0 THEN left ELSE SubSeq(left, 1, dash - 1)
        pre == IF dash = 0 THEN <<>> ELSE SubSeq(left, dash + 1, Len(left))
        coreIds == SplitOn(core, 46)
        preIds == SplitOn(pre, 46)
        buildIds == SplitOn(build, 46)
    IN  /\ Len(coreIds) = 3
        /\ \A i \in 1..Len(coreIds) : NumericId(coreIds[i])
        /\ (dash # 0 => \A i \in 1..Len(preIds) : PrereleaseId(preIds[i]))
        /\ (plus # 0 => \A i \in 1..Len(buildIds) : BuildId(buildIds[i]))

\* variant of Classify: only "@" marks an image reference
Classify_AtOnly(element) ==
    IF VersionRegexMatchString(element) THEN "version"
    ELSE IF StringsContains(element, 64) THEN "image"
    ELSE "format"

\* the branch of the if / else if / else on element
Classify(element) ==
    IF VersionRegexMatchString(element) THEN "version"
    ELSE IF StringsContains(element, 64) \/ StringsContains(element, 58) THEN "image"
    ELSE "format"

\* OCPVersionInfo as far as the resolution is concerned
Info(version, image) == [ClusterVersion |-> version, OSImage |-> image]

InitResolve ==
    /\ chart = <<>>
    /\ persisted = EmptyMap
    /\ RInitLocals(FALSE)
    /\ PdOff
    /\ AfOff
    /\ FOff
    /\ NvOff
    /\ DtOff
    /\ PfOff
    /\ GOff
    /\ watchList \in SeqsUpTo(BOOLEAN, MaxWatch)
    /\ rsPc = "watch"
    /\ RsLocals

\* return nil, err
RsAbort(why) ==
    /\ rsRet' = why
    /\ rsRetMap' = [nil |-> TRUE, m |-> EmptyMap]
    /\ rsFailures' = rsFailures \cup {why}
    /\ rsPc' = "done"

\* variant of RsGetNotFound: a not-found error is returned like any other
RsGetNotFound_Abort ==
    /\ rsPc = "watch"
    /\ rsW <= Len(watchList)
    /\ rsLastGet' = "notfound"
    /\ RsAbort("retrieval")
    /\ UNCHANGED <<nonrsvars, watchList, rsW, rsObjs, rsResult, rsElem, rsRoute,
                   rsImage, versionMap, rsNetUsed, rsElemNet, rsLast, rsOverwrote>>

\* getAllResources returns a not-found error: continue with the next watch spec
RsGetNotFound ==
    /\ rsPc = "watch"
    /\ rsW <= Len(watchList)
    /\ rsLastGet' = "notfound"
    /\ rsFailures' = rsFailures \cup {"notfound"}
    /\ rsW' = rsW + 1
    /\ UNCHANGED <<nonrsvars, watchList, rsPc, rsObjs, rsResult, rsElem, rsRoute,
                   rsImage, versionMap, rsRet, rsRetMap, rsNetUsed, rsElemNet, rsLast, rsOverwrote>>

\* getAllResources returns another error
RsGetFail ==
    /\ rsPc = "watch"
    /\ rsW <= Len(watchList)
    /\ rsLastGet' = "error"
    /\ RsAbort("retrieval")
    /\ UNCHANGED <<nonrsvars, watchList, rsW, rsObjs, rsResult, rsElem, rsRoute,
                   rsImage, versionMap, rsNetUsed, rsElemNet, rsLast, rsOverwrote>>

\* the objects are retrieved, filterResources returns an error
RsFilterFail ==
    /\ rsPc = "watch"
    /\ rsW <= Len(watchList)
    /\ rsLastGet' = "ok"
    /\ RsAbort("filter")
    /\ UNCHANGED <<nonrsvars, watchList, rsW, rsObjs, rsResult, rsElem, rsRoute,
                   rsImage, versionMap, rsNetUsed, rsElemNet, rsLast, rsOverwrote>>

\* the objects are retrieved and n of them are left by filterResources
RsWatchObjects(n) ==
    /\ rsPc = "watch"
    /\ rsW <= Len(watchList)
    /\ rsLastGet' = "ok"
    /\ rsObjs' = n
    /\ rsPc' = "objs"
    /\ UNCHANGED <<nonrsvars, watchList, rsW, rsResult, rsElem, rsRoute, rsImage,
                   versionMap, rsRet, rsRetMap, rsFailures, rsNetUsed, rsElemNet,
                   rsLast, rsOverwrote>>

\* the object loop is over: next watch spec
RsObjsEnd ==
    /\ rsPc = "objs"
    /\ rsObjs = 0
    /\ rsW' = rsW + 1
    /\ rsPc' = "watch"
    /\ UNCHANGED <<nonrsvars, watchList, rsObjs, rsResult, rsElem, rsRoute, rsImage,
                   versionMap, rsRet, rsRetMap, rsLastGet, rsFailures, rsNetUsed,
                   rsElemNet, rsLast, rsOverwrote>>

\* GetJSONPath returns an error for the next object: log it and continue
RsPathFail ==
    /\ rsPc = "objs"
    /\ rsObjs > 0
    /\ rsObjs' = rsObjs - 1
    /\ rsFailures' = rsFailures \cup {"path"}
    /\ UNCHANGED <<nonrsvars, watchList, rsPc, rsW, rsResult, rsElem, rsRoute,
                   rsImage, versionMap, rsRet, rsRetMap, rsLastGet, rsNetUsed,
                   rsElemNet, rsLast, rsOverwrote>>

\* GetJSONPath returns n strings for the next object
RsPathOk(n) ==
    /\ rsPc = "objs"
    /\ rsObjs > 0
    /\ rsObjs' = rsObjs - 1
    /\ rsResult' = n
    /\ rsPc' = "elems"
    /\ UNCHANGED <<nonrsvars, watchList, rsW, rsElem, rsRoute, rsImage, versionMap,
                   rsRet, rsRetMap, rsLastGet, rsFailures, rsNetUsed, rsElemNet,
                   rsLast, rsOverwrote>>

\* the element loop is over: next object
RsResultEnd ==
    /\ rsPc = "elems"
    /\ rsResult = 0
    /\ rsPc' = "objs"
    /\ UNCHANGED <<nonrsvars, watchList, rsW, rsObjs, rsResult, rsElem, rsRoute,
                   rsImage, versionMap, rsRet, rsRetMap, rsLastGet, rsFailures,
                   rsNetUsed, rsElemNet, rsLast, rsOverwrote>>

\* variant of RsElement: the upgrade graph is asked before the string is looked at
RsElement_FetchFirst(e) ==
    /\ rsPc = "elems"
    /\ rsResult > 0
    /\ rsResult' = rsResult - 1
    /\ rsElem' = e
    /\ rsRoute' = Classify(e)
    /\ rsElemNet' = 1
    /\ rsNetUsed' = TRUE
    /\ CASE Classify(e) = "version" ->
                /\ rsPc' = "info"
                /\ rsImage' = GraphPayload
                /\ UNCHANGED <<rsRet, rsRetMap, rsFailures>>
         [] Classify(e) = "image" ->
                /\ rsImage' = e
                /\ rsPc' = "info"
                /\ UNCHANGED <<rsRet, rsRetMap, rsFailures>>
         [] OTHER ->
                /\ RsAbort("format")
                /\ UNCHANGED rsImage
    /\ UNCHANGED <<nonrsvars, watchList, rsW, rsObjs, versionMap, rsLastGet, rsLast, rsOverwrote>>

\* the next string of result is classified
RsElement(e) ==
    /\ rsPc = "elems"
    /\ rsResult > 0
    /\ rsResult' = rsResult - 1
    /\ rsElem' = e
    /\ rsRoute' = Classify(e)
    /\ rsElemNet' = 0
    /\ CASE Classify(e) = "version" ->
                /\ rsPc' = "graph"
                /\ UNCHANGED <<rsImage, rsRet, rsRetMap, rsFailures>>
         [] Classify(e) = "image" ->
                /\ rsImage' = e
                /\ rsPc' = "info"
                /\ UNCHANGED <<rsRet, rsRetMap, rsFailures>>
         [] OTHER ->
                /\ RsAbort("format")
                /\ UNCHANGED rsImage
    /\ UNCHANGED <<nonrsvars, watchList, rsW, rsObjs, versionMap, rsLastGet,
                   rsNetUsed, rsLast, rsOverwrote>>

\* getImageFromVersion returns an error
RsGraphFail ==
    /\ rsPc = "graph"
    /\ rsNetUsed' = TRUE
    /\ rsElemNet' = rsElemNet + 1
    /\ RsAbort("graph")
    /\ UNCHANGED <<nonrsvars, watchList, rsW, rsObjs, rsResult, rsElem, rsRoute,
                   rsImage, versionMap, rsLastGet, rsLast, rsOverwrote>>

\* getImageFromVersion returns the payload of the version
RsGraphOk ==
    /\ rsPc = "graph"
    /\ rsNetUsed' = TRUE
    /\ rsElemNet' = rsElemNet + 1
    /\ rsImage' = GraphPayload
    /\ rsPc' = "info"
    /\ UNCHANGED <<nonrsvars, watchList, rsW, rsObjs, rsResult, rsElem, rsRoute,
                   versionMap, rsRet, rsRetMap, rsLastGet, rsFailures, rsLast, rsOverwrote>>

\* variant of RsInfoFail: the map built so far is returned with the error
RsInfoFail_PartialMap ==
    /\ rsPc = "info"
    /\ rsNetUsed' = TRUE
    /\ rsElemNet' = rsElemNet + 1
    /\ rsRet' = "registry"
    /\ rsRetMap' = [nil |-> FALSE, m |-> versionMap]
    /\ rsFailures' = rsFailures \cup {"registry"}
    /\ rsPc' = "done"
    /\ UNCHANGED <<nonrsvars, watchList, rsW, rsObjs, rsResult, rsElem, rsRoute,
                   rsImage, versionMap, rsLastGet, rsLast, rsOverwrote>>

\* getVersionInfoFromImage returns an error (one of its four registry steps)
RsInfoFail ==
    /\ rsPc = "info"
    /\ rsNetUsed' = TRUE
    /\ rsElemNet' = rsElemNet + 1
    /\ RsAbort("registry")
    /\ UNCHANGED <<nonrsvars, watchList, rsW, rsObjs, rsResult, rsElem, rsRoute,
                   rsImage, versionMap, rsLastGet, rsLast, rsOverwrote>>

\* variant of RsInfoOk: an entry already in the map is kept
RsInfoOk_FirstWriter(v) ==
    /\ rsPc = "info"
    /\ rsNetUsed' = TRUE
    /\ rsElemNet' = rsElemNet + 1
    /\ versionMap' = IF v \in DOMAIN versionMap THEN versionMap
                     ELSE MapSet(versionMap, v, Info(v, rsImage))
    /\ rsLast' = MapSet(rsLast, v, Info(v, rsImage))
    /\ rsOverwrote' = (rsOverwrote \/ v \in DOMAIN versionMap)
    /\ rsPc' = "elems"
    /\ UNCHANGED <<nonrsvars, watchList, rsW, rsObjs, rsResult, rsElem, rsRoute,
                   rsImage, rsRet, rsRetMap, rsLastGet, rsFailures>>

\* getVersionInfoFromImage returns the info of cluster version v
RsInfoOk(v) ==
    /\ rsPc = "info"
    /\ rsNetUsed' = TRUE
    /\ rsElemNet' = rsElemNet + 1
    /\ versionMap' = MapSet(versionMap, v, Info(v, rsImage))
    /\ rsLast' = MapSet(rsLast, v, Info(v, rsImage))
    /\ rsOverwrote' = (rsOverwrote \/ v \in DOMAIN versionMap)
    /\ rsPc' = "elems"
    /\ UNCHANGED <<nonrsvars, watchList, rsW, rsObjs, rsResult, rsElem, rsRoute,
                   rsImage, rsRet, rsRetMap, rsLastGet, rsFailures>>

\* the loop over watchList is over: return versionMap, nil
RsReturn ==
    /\ rsPc = "watch"
    /\ rsW > Len(watchList)
    /\ rsRet' = "ok"
    /\ rsRetMap' = [nil |-> FALSE, m |-> versionMap]
    /\ rsPc' = "done"
    /\ UNCHANGED <<nonrsvars, watchList, rsW, rsObjs, rsResult, rsElem, rsRoute,
                   rsImage, versionMap, rsLastGet, rsFailures, rsNetUsed, rsElemNet,
                   rsLast, rsOverwrote>>

NextResolve ==
    \/ RsGetNotFound
    \/ RsGetFail
    \/ RsFilterFail
    \/ \E n \in 0..MaxWatchObjs : RsWatchObjects(n)
    \/ RsObjsEnd
    \/ RsPathFail
    \/ \E n \in 0..MaxElems : RsPathOk(n)
    \/ RsResultEnd
    \/ \E e \in Elements : RsElement(e)
    \/ RsGraphFail
    \/ RsGraphOk
    \/ RsInfoFail
    \/ \E v \in Versions : RsInfoOk(v)
    \/ RsReturn

SpecResolve == InitResolve /\ [][NextResolve]_vars

----------------------------------------------------------------------------
(* pkg/upgrade: DriverToolkitVersion and UpdateInfo *)

\* runtime.GOARCH of the build: "amd64"
GOARCH == <<97, 109, 100, 54, 52>>

\* runningArch after lines 98-101: "x86_64" for "amd64", GOARCH otherwise
RunningArch == IF GOARCH = <<97, 109, 100, 54, 52>> THEN <<120, 56, 54, 95, 54, 52>> ELSE GOARCH

\* "." + runningArch
DotArch == <<46>> \o RunningArch

\* kernel versions: "4.18" and "4.18rt", without and with the architecture
KPlain == <<52, 46, 49, 56>>
KArch == KPlain \o DotArch
RPlain == <<52, 46, 49, 56, 114, 116>>
RArch == RPlain \o DotArch

\* OS versions: "8.4" and "9.0"
Os84 == <<56, 46, 52>>
Os90 == <<57, 46, 48>>

\* strings.Contains(s, substr)
Contains(s, substr) ==
    \E i \in 1..(Len(s) - Len(substr) + 1) : SubSeq(s, i, i + Len(substr) - 1) = substr

\* the zero value of registry.DriverToolkitEntry
ZeroDTK ==
    [ImageURL |-> "", KernelFullVersion |-> <<>>, RTKernelFullVersion |-> <<>>,
     OSVersion |-> <<>>]

\* toolkit releases an image can hold: the kernel versions come without or with
\* the architecture, the RT kernel version may be empty
Dtks ==
    {[ImageURL |-> "", KernelFullVersion |-> kv, RTKernelFullVersion |-> rt,
      OSVersion |-> Os84] : kv \in {KPlain, KArch}, rt \in {<<>>, RPlain, RArch}}

\* One entry of the version history by what the registry makes of it:
\*   "nolayer"       LastLayer(entry) is nil
\*   "noversion"     ReleaseManifests gives no version
\*   "nodtk"         ReleaseManifests gives a version and no toolkit image
\*   "dtklayerfail"  LastLayer(imageURL) is nil
\*   "extractfail"   ExtractToolkitRelease returns an error
\*   "dtk"           the toolkit image imageURL holds the release dtk
HistoryEntries ==
    {[kind |-> kd, imageURL |-> "", dtk |-> ZeroDTK] : kd \in {"nolayer", "noversion", "nodtk"}}
        \cup {[kind |-> kd, imageURL |-> "imgA", dtk |-> ZeroDTK] :
                  kd \in {"dtklayerfail", "extractfail"}}
        \cup {[kind |-> "dtk", imageURL |-> u, dtk |-> d] : u \in {"imgA", "imgB"}, d \in Dtks}

\* the kernels nodes run: the kernel-version.full label carries the architecture
NodeKernels == {KArch, RArch}

\* node maps as NodeVersionInfo builds them: no toolkit release attached
NodeMaps ==
    UNION {[ks -> {[OSVersion |-> os, DriverToolkit |-> ZeroDTK] : os \in {Os84, Os90}}] :
               ks \in SUBSET NodeKernels}

\* exit.OnError(err): the process ends when err is not nil
OnError(err) == IF err THEN "exit" ELSE "continue"

InitToolkit ==
    /\ chart = <<>>
    /\ persisted = EmptyMap
    /\ RInitLocals(FALSE)
    /\ PdOff
    /\ AfOff
    /\ FOff
    /\ NvOff
    /\ PfOff
    /\ GOff
    /\ RsOff
    /\ entries \in SeqsUpTo(HistoryEntries, MaxHistory)
    /\ dtInfo0 \in NodeMaps
    /\ info = dtInfo0
    /\ dtPc = "scan"
    /\ dtI = 1
    /\ dtExamined = <<>>
    /\ dtk = ZeroDTK
    /\ match = FALSE
    /\ dtOutcome = "none"
    /\ dtNil = TRUE

\* variant of DtSkipEntry: an entry without a last layer ends the scan
DtSkipEntry_Stop ==
    /\ dtPc = "scan"
    /\ dtI <= Len(entries)
    /\ entries[dtI].kind = "nolayer"
    /\ dtExamined' = Append(dtExamined, dtI)
    /\ dtOutcome' = "ok"
    /\ dtNil' = FALSE
    /\ dtPc' = "done"
    /\ UNCHANGED <<nondtvars, entries, dtInfo0, info, dtI, dtk, match>>

\* registry.LastLayer(entry) is nil: continue with the next entry
DtSkipEntry ==
    /\ dtPc = "scan"
    /\ dtI <= Len(entries)
    /\ entries[dtI].kind = "nolayer"
    /\ dtExamined' = Append(dtExamined, dtI)
    /\ dtI' = dtI + 1
    /\ UNCHANGED <<nondtvars, entries, dtInfo0, info, dtPc, dtk, match, dtOutcome, dtNil>>

\* no version in the payload, no last layer of the toolkit image, or no toolkit
\* release in it: exit.OnError ends the process
DtFatal ==
    /\ dtPc = "scan"
    /\ dtI <= Len(entries)
    /\ entries[dtI].kind \in {"noversion", "dtklayerfail", "extractfail"}
    /\ dtExamined' = Append(dtExamined, dtI)
    /\ dtOutcome' = OnError(TRUE)
    /\ dtPc' = "done"
    /\ UNCHANGED <<nondtvars, entries, dtInfo0, info, dtI, dtk, match, dtNil>>

\* variant of DtNoToolkitImage: the scan goes on with the next entry
DtNoToolkitImage_Continue ==
    /\ dtPc = "scan"
    /\ dtI <= Len(entries)
    /\ entries[dtI].kind = "nodtk"
    /\ dtExamined' = Append(dtExamined, dtI)
    /\ dtI' = dtI + 1
    /\ UNCHANGED <<nondtvars, entries, dtInfo0, info, dtPc, dtk, match, dtOutcome, dtNil>>

\* the release has no toolkit image: warn and return info, nil
DtNoToolkitImage ==
    /\ dtPc = "scan"
    /\ dtI <= Len(entries)
    /\ entries[dtI].kind = "nodtk"
    /\ dtExamined' = Append(dtExamined, dtI)
    /\ dtOutcome' = "ok"
    /\ dtNil' = FALSE
    /\ dtPc' = "done"
    /\ UNCHANGED <<nondtvars, entries, dtInfo0, info, dtI, dtk, match>>

\* variant of NormalizeArch: the architecture is appended without looking
NormalizeArch_Always(d) ==
    [d EXCEPT !.KernelFullVersion = @ \o DotArch,
              !.RTKernelFullVersion = @ \o DotArch]

\* lines 98-106 of UpdateInfo: append "." + runningArch to both versions when
\* the kernel version does not contain runningArch
NormalizeArch(d) ==
    IF ~Contains(d.KernelFullVersion, RunningArch)
    THEN [d EXCEPT !.KernelFullVersion = @ \o DotArch,
                   !.RTKernelFullVersion = @ \o DotArch]
    ELSE d

\* the toolkit release of the entry is extracted and UpdateInfo is entered:
\* dtk.ImageURL = imageURL, the versions get the architecture, match := false
DtCallUpdateInfo ==
    /\ dtPc = "scan"
    /\ dtI <= Len(entries)
    /\ entries[dtI].kind = "dtk"
    /\ dtExamined' = Append(dtExamined, dtI)
    /\ dtk' = NormalizeArch([entries[dtI].dtk EXCEPT !.ImageURL = entries[dtI].imageURL])
    /\ match' = FALSE
    /\ dtPc' = "kernel"
    /\ UNCHANGED <<nondtvars, entries, dtInfo0, info, dtI, dtOutcome, dtNil>>

\* variant of UiMatch: the OS versions are not compared
UiMatch_NoCheck(key, nextPc) ==
    IF key \in DOMAIN info
    THEN /\ info' = [info EXCEPT ![key] = [@ EXCEPT !.OSVersion = dtk.OSVersion,
                                                    !.DriverToolkit = dtk]]
         /\ match' = TRUE
         /\ dtPc' = nextPc
         /\ UNCHANGED dtOutcome
    ELSE /\ dtPc' = nextPc
         /\ UNCHANGED <<info, match, dtOutcome>>

\* one "if _, ok := info[key]; ok" block of UpdateInfo
UiMatch(key, nextPc) ==
    IF key \in DOMAIN info
    THEN IF OnError(info[key].OSVersion # dtk.OSVersion) = "exit"
         THEN /\ dtOutcome' = "exit"
              /\ dtPc' = "done"
              /\ UNCHANGED <<info, match>>
         ELSE /\ info' = [info EXCEPT ![key] = [@ EXCEPT !.OSVersion = dtk.OSVersion,
                                                         !.DriverToolkit = dtk]]
              /\ match' = TRUE
              /\ dtPc' = nextPc
              /\ UNCHANGED dtOutcome
    ELSE /\ dtPc' = nextPc
         /\ UNCHANGED <<info, match, dtOutcome>>

\* the block for dtk.KernelFullVersion
UiKernel ==
    /\ dtPc = "kernel"
    /\ UiMatch(dtk.KernelFullVersion, "rt")
    /\ UNCHANGED <<nondtvars, entries, dtInfo0, dtI, dtExamined, dtk, dtNil>>

\* the block for dtk.RTKernelFullVersion
UiRT ==
    /\ dtPc = "rt"
    /\ UiMatch(dtk.RTKernelFullVersion, "ret")
    /\ UNCHANGED <<nondtvars, entries, dtInfo0, dtI, dtExamined, dtk, dtNil>>

\* variant of UiReturn: the map is returned also when no key matched
UiReturn_NoMatchOk ==
    /\ dtPc = "ret"
    /\ dtOutcome' = "ok"
    /\ dtNil' = FALSE
    /\ dtPc' = "done"
    /\ UNCHANGED <<nondtvars, entries, dtInfo0, info, dtI, dtExamined, dtk, match>>

\* the end of UpdateInfo: nil and an error when nothing matched, info otherwise
UiReturn ==
    /\ dtPc = "ret"
    /\ IF ~match
       THEN dtOutcome' = "notfound" /\ dtNil' = TRUE
       ELSE dtOutcome' = "ok" /\ dtNil' = FALSE
    /\ dtPc' = "done"
    /\ UNCHANGED <<nondtvars, entries, dtInfo0, info, dtI, dtExamined, dtk, match>>

\* the loop over entries is over: return info, nil
DtExhausted ==
    /\ dtPc = "scan"
    /\ dtI > Len(entries)
    /\ dtOutcome' = "ok"
    /\ dtNil' = FALSE
    /\ dtPc' = "done"
    /\ UNCHANGED <<nondtvars, entries, dtInfo0, info, dtI, dtExamined, dtk, match>>

NextToolkit ==
    \/ DtSkipEntry
    \/ DtFatal
    \/ DtNoToolkitImage
    \/ DtCallUpdateInfo
    \/ UiKernel
    \/ UiRT
    \/ UiReturn
    \/ DtExhausted

SpecToolkit == InitToolkit /\ [][NextToolkit]_vars

----------------------------------------------------------------------------
(* pkg/upgrade: NodeVersionInfo *)

\* the node labels NodeVersionInfo reads, without the common prefix
\* "feature.node.kubernetes.io/"
LKernel == "kernel-version.full"
LVersionId == "system-os_release.VERSION_ID"
LRhel == "system-os_release.RHEL_VERSION"
LId == "system-os_release.ID"
LMajor == "system-os_release.VERSION_ID.major"
LMinor == "system-os_release.VERSION_ID.minor"

\* label values: "4.8", "rhcos", "4", "8", and the prefix "rhel"
V48 == <<52, 46, 56>>
IdRhcos == <<114, 104, 99, 111, 115>>
Major4 == <<52>>
Minor8 == <<56>>
Rhel == <<114, 104, 101, 108>>

EmptyLabels == [x \in {} |-> <<>>]

\* a label that may be missing: the maps with at most the key
Opt(key, vals) == {EmptyLabels} \cup {[x \in {key} |-> v] : v \in vals}

Merge(f, g) == [x \in (DOMAIN f) \cup (DOMAIN g) |-> IF x \in DOMAIN g THEN g[x] ELSE f[x]]

\* the three labels read when RHEL_VERSION is missing: all, none, or no ID
Fallbacks ==
    {EmptyLabels,
     [x \in {LMajor, LMinor} |-> IF x = LMajor THEN Major4 ELSE Minor8],
     [x \in {LId, LMajor, LMinor} |->
          IF x = LId THEN IdRhcos ELSE IF x = LMajor THEN Major4 ELSE Minor8]}

\* node.GetLabels() of the nodes a cluster can have. A label that is there has
\* the value node feature discovery read from the node, which is not empty
\* (lines 67-68).
NodeLabels ==
    {Merge(Merge(Merge(a, b), c), d) :
         a \in Opt(LKernel, {KArch, RArch}), b \in Opt(LVersionId, {V48}),
         c \in Opt(LRhel, {Os84, Os90}), d \in Fallbacks}

\* labels[key] on a Go map: the zero value when the key is missing
LabelGet(labels, key) == IF key \in DOMAIN labels THEN labels[key] ELSE <<>>

\* the NodeVersion built from the labels of one node (lines 79-88)
NodeVersionOf(labels) ==
    IF LRhel \notin DOMAIN labels
    THEN LET nodeOSrel == LabelGet(labels, LId)
             nodeOSmaj == LabelGet(labels, LMajor)
             nodeOSmin == LabelGet(labels, LMinor)
         IN  [OSVersion |-> nodeOSmaj \o <<46>> \o nodeOSmin,
              OSMajor |-> nodeOSrel \o nodeOSmaj,
              OSMajorMinor |-> nodeOSrel \o nodeOSmaj \o <<46>> \o nodeOSmin,
              ClusterVersion |-> labels[LVersionId],
              DriverToolkit |-> ZeroDTK]
    ELSE LET rhelVersion == labels[LRhel]
             rhelMaj == SubSeq(rhelVersion, 1, 1)
         IN  [OSVersion |-> rhelVersion,
              OSMajor |-> Rhel \o rhelMaj,
              OSMajorMinor |-> Rhel \o rhelVersion,
              ClusterVersion |-> labels[LVersionId],
              DriverToolkit |-> ZeroDTK]

InitNodes ==
    /\ chart = <<>>
    /\ persisted = EmptyMap
    /\ RInitLocals(FALSE)
    /\ PdOff
    /\ AfOff
    /\ FOff
    /\ PfOff
    /\ GOff
    /\ RsOff
    /\ DtOff
    /\ items \in SeqsUpTo(NodeLabels, MaxClusterNodes)
    /\ nvPc = "loop"
    /\ nvI = 1
    /\ nvInfo = EmptyMap
    /\ nvOutcome = "none"
    /\ nvNil = TRUE

\* variant of NvMissingLabel: a node without the labels is left out
NvMissingLabel_Skip ==
    /\ nvPc = "loop"
    /\ nvI <= Len(items)
    /\ (LKernel \notin DOMAIN items[nvI] \/ LVersionId \notin DOMAIN items[nvI])
    /\ nvI' = nvI + 1
    /\ UNCHANGED <<nonnvvars, items, nvPc, nvInfo, nvOutcome, nvNil>>

\* the node has no kernel-version.full or no VERSION_ID label: return nil, err
NvMissingLabel ==
    /\ nvPc = "loop"
    /\ nvI <= Len(items)
    /\ (LKernel \notin DOMAIN items[nvI] \/ LVersionId \notin DOMAIN items[nvI])
    /\ nvOutcome' = "error"
    /\ nvNil' = TRUE
    /\ nvPc' = "done"
    /\ UNCHANGED <<nonnvvars, items, nvI, nvInfo>>

\* variant of NvNode: a kernel version already in the map keeps its record
NvNode_FirstWins ==
    /\ nvPc = "loop"
    /\ nvI <= Len(items)
    /\ LKernel \in DOMAIN items[nvI]
    /\ LVersionId \in DOMAIN items[nvI]
    /\ nvInfo' = IF items[nvI][LKernel] \in DOMAIN nvInfo THEN nvInfo
                 ELSE MapSet(nvInfo, items[nvI][LKernel], NodeVersionOf(items[nvI]))
    /\ nvI' = nvI + 1
    /\ UNCHANGED <<nonnvvars, items, nvPc, nvOutcome, nvNil>>

\* the node has both labels: info[kernelFullVersion] = NodeVersion{...}
NvNode ==
    /\ nvPc = "loop"
    /\ nvI <= Len(items)
    /\ LKernel \in DOMAIN items[nvI]
    /\ LVersionId \in DOMAIN items[nvI]
    /\ nvInfo' = MapSet(nvInfo, items[nvI][LKernel], NodeVersionOf(items[nvI]))
    /\ nvI' = nvI + 1
    /\ UNCHANGED <<nonnvvars, items, nvPc, nvOutcome, nvNil>>

\* the loop over the nodes is over: return info, nil
NvReturn ==
    /\ nvPc = "loop"
    /\ nvI > Len(items)
    /\ nvOutcome' = "ok"
    /\ nvNil' = FALSE
    /\ nvPc' = "done"
    /\ UNCHANGED <<nonnvvars, items, nvI, nvInfo>>

NextNodes ==
    \/ NvMissingLabel
    \/ NvNode
    \/ NvReturn

SpecNodes == InitNodes /\ [][NextNodes]_vars

----------------------------------------------------------------------------
(* filterResources *)

\* what watcher.GetJSONPath gives for an object at the path of the selectors:
\* an error, or the values found there (none, one or many)
PathResults ==
    {[err |-> TRUE, vals |-> <<>>]}
        \cup {[err |-> FALSE, vals |-> v] : v \in {<<>>, <<"a">>, <<"b">>, <<"b", "a">>}}

\* the objects: a name and what GetJSONPath gives for the object
FilterObjects == {[name |-> n, res |-> r] : n \in {"o1", "o2"}, r \in PathResults}

\* SpecialResourceModuleSelector; the selectors share one path
Selectors == {[Value |-> v, Exclude |-> e] : v \in {"a", "b"}, e \in BOOLEAN}

InitFilter ==
    /\ chart = <<>>
    /\ persisted = EmptyMap
    /\ RInitLocals(FALSE)
    /\ PdOff
    /\ AfOff
    /\ PfOff
    /\ GOff
    /\ RsOff
    /\ DtOff
    /\ NvOff
    /\ selectors \in SeqsUpTo(Selectors, MaxSelectors)
    /\ fObjs \in SeqsUpTo(FilterObjects, MaxFilterObjs)
    /\ fPc = "start"
    /\ fS = 1
    /\ fO = 1
    /\ filteredObjects = <<>>
    /\ fRet = <<>>
    /\ fErr = FALSE

\* variant of FEmptySelectors: without selectors nothing is selected
FEmptySelectors_Nothing ==
    /\ fPc = "start"
    /\ Len(selectors) = 0
    /\ fRet' = <<>>
    /\ fErr' = FALSE
    /\ fPc' = "done"
    /\ UNCHANGED <<nonfvars, selectors, fObjs, fS, fO, filteredObjects>>

\* len(selectors) == 0: return objs, nil
FEmptySelectors ==
    /\ fPc = "start"
    /\ Len(selectors) = 0
    /\ fRet' = fObjs
    /\ fErr' = FALSE
    /\ fPc' = "done"
    /\ UNCHANGED <<nonfvars, selectors, fObjs, fS, fO, filteredObjects>>

\* there are selectors: filteredObjects is made and the loops are entered
FStart ==
    /\ fPc = "start"
    /\ Len(selectors) # 0
    /\ filteredObjects' = <<>>
    /\ fPc' = "loop"
    /\ UNCHANGED <<nonfvars, selectors, fObjs, fS, fO, fRet, fErr>>

\* GetJSONPath returns an error for the object: return filteredObjects, err
FObjectError ==
    /\ fPc = "loop"
    /\ fS <= Len(selectors)
    /\ fO <= Len(fObjs)
    /\ fObjs[fO].res.err
    /\ fRet' = filteredObjects
    /\ fErr' = TRUE
    /\ fPc' = "done"
    /\ UNCHANGED <<nonfvars, selectors, fObjs, fS, fO, filteredObjects>>

\* variant of FObject: an object already in filteredObjects is not appended again
FObject_Dedup ==
    /\ fPc = "loop"
    /\ fS <= Len(selectors)
    /\ fO <= Len(fObjs)
    /\ ~fObjs[fO].res.err
    /\ LET candidates == fObjs[fO].res.vals
           found0 == \E i \in 1..Len(candidates) : candidates[i] = selectors[fS].Value
           found == IF selectors[fS].Exclude THEN ~found0 ELSE found0
           seen == \E i \in 1..Len(filteredObjects) : filteredObjects[i] = fObjs[fO]
       IN  filteredObjects' = IF found /\ ~seen THEN Append(filteredObjects, fObjs[fO])
                              ELSE filteredObjects
    /\ fO' = fO + 1
    /\ UNCHANGED <<nonfvars, selectors, fObjs, fPc, fS, fRet, fErr>>

\* variant of FObject: the exclude flag of the selector is not looked at
FObject_IgnoreExclude ==
    /\ fPc = "loop"
    /\ fS <= Len(selectors)
    /\ fO <= Len(fObjs)
    /\ ~fObjs[fO].res.err
    /\ LET candidates == fObjs[fO].res.vals
           found == \E i \in 1..Len(candidates) : candidates[i] = selectors[fS].Value
       IN  filteredObjects' = IF found THEN Append(filteredObjects, fObjs[fO])
                              ELSE filteredObjects
    /\ fO' = fO + 1
    /\ UNCHANGED <<nonfvars, selectors, fObjs, fPc, fS, fRet, fErr>>

\* one object under one selector: found, inverted by Exclude, appended if found
FObject ==
    /\ fPc = "loop"
    /\ fS <= Len(selectors)
    /\ fO <= Len(fObjs)
    /\ ~fObjs[fO].res.err
    /\ LET candidates == fObjs[fO].res.vals
           found0 == \E i \in 1..Len(candidates) : candidates[i] = selectors[fS].Value
           found == IF selectors[fS].Exclude THEN ~found0 ELSE found0
       IN  filteredObjects' = IF found THEN Append(filteredObjects, fObjs[fO])
                              ELSE filteredObjects
    /\ fO' = fO + 1
    /\ UNCHANGED <<nonfvars, selectors, fObjs, fPc, fS, fRet, fErr>>

\* the loop over objs is over: next selector, objs from the start
FSelectorDone ==
    /\ fPc = "loop"
    /\ fS <= Len(selectors)
    /\ fO > Len(fObjs)
    /\ fS' = fS + 1
    /\ fO' = 1
    /\ UNCHANGED <<nonfvars, selectors, fObjs, fPc, filteredObjects, fRet, fErr>>

\* the loop over selectors is over: return filteredObjects, nil
FReturn ==
    /\ fPc = "loop"
    /\ fS > Len(selectors)
    /\ fRet' = filteredObjects
    /\ fErr' = FALSE
    /\ fPc' = "done"
    /\ UNCHANGED <<nonfvars, selectors, fObjs, fS, fO, filteredObjects>>

NextFilter ==
    \/ FEmptySelectors
    \/ FStart
    \/ FObjectError
    \/ FObject
    \/ FSelectorDone
    \/ FReturn

SpecFilter == InitFilter /\ [][NextFilter]_vars

----------------------------------------------------------------------------
(* setVersionNodeAffinity and resourcehelper.NodeAffinityNames *)

NodeNameValues == {"node-1", "node-2"}

AffinityKinds == {"Pod", "DaemonSet", "Deployment", "StatefulSet", "ConfigMap"}

\* a matchExpression an object carries before the call
OtherExpression == [key |-> "zone", operator |-> "In", values |-> <<"z1">>]

\* a nodeSelectorTerm: a map with or without the key matchExpressions
Terms ==
    {[found |-> FALSE, matchExpressions |-> <<>>]}
        \cup {[found |-> TRUE, matchExpressions |-> m] : m \in {<<>>, <<OtherExpression>>}}

\* what an object holds at a nodeSelectorTerms path: nothing, a value that is
\* no slice, or a slice of terms
PathContents ==
    {[state |-> st, terms |-> <<>>] : st \in {"absent", "wrong"}}
        \cup {[state |-> "found", terms |-> t] : t \in SeqsUpTo(Terms, MaxTerms)}

\* pod: spec.affinity.nodeAffinity.requiredDuringSchedulingIgnoredDuringExecution.nodeSelectorTerms
\* tpl: spec.template.spec.affinity.nodeAffinity.(the same)
AffinityObjects ==
    {[kind |-> kd, pod |-> p, tpl |-> t] : kd \in AffinityKinds, p \in PathContents, t \in PathContents}

\* the fields setVersionNodeAffinity passes to NodeAffinityNames for a kind
VersionNodeAffinityFields(kind) ==
    CASE kind \in {"DaemonSet", "Deployment", "StatefulSet"} -> "tpl"
      [] kind = "Pod" -> "pod"
      [] OTHER -> "none"

InitAffinity ==
    /\ chart = <<>>
    /\ persisted = EmptyMap
    /\ RInitLocals(FALSE)
    /\ PdOff
    /\ PfOff
    /\ GOff
    /\ RsOff
    /\ DtOff
    /\ NvOff
    /\ FOff
    /\ obj0 \in AffinityObjects
    /\ obj = obj0
    /\ nodeNames \in SeqsUpTo(NodeNameValues, MaxNames)
    /\ afPc = "start"
    /\ afErr = FALSE

\* the kind is none of the switch: nothing is done
AfOtherKind ==
    /\ afPc = "start"
    /\ VersionNodeAffinityFields(obj.kind) = "none"
    /\ afPc' = "done"
    /\ afErr' = FALSE
    /\ UNCHANGED <<nonafvars, obj0, obj, nodeNames>>

\* len(nodeNames) == 0: return nil
AfNoNames ==
    /\ afPc = "start"
    /\ VersionNodeAffinityFields(obj.kind) # "none"
    /\ Len(nodeNames) = 0
    /\ afPc' = "done"
    /\ afErr' = FALSE
    /\ UNCHANGED <<nonafvars, obj0, obj, nodeNames>>

\* unstructured.NestedSlice returns an error: the value at fields is no slice
AfNestedSliceErr ==
    /\ afPc = "start"
    /\ VersionNodeAffinityFields(obj.kind) # "none"
    /\ Len(nodeNames) # 0
    /\ obj[VersionNodeAffinityFields(obj.kind)].state = "wrong"
    /\ afPc' = "done"
    /\ afErr' = TRUE
    /\ UNCHANGED <<nonafvars, obj0, obj, nodeNames>>

\* the expression NodeAffinityNames builds
Expression(names) ==
    [key |-> "kubernetes.io/hostname", operator |-> "In", values |-> names]

\* the loop over nodeSelectorTerms: the expression is appended to the
\* matchExpressions of every term
WithExpression(terms, expression) ==
    [i \in 1..Len(terms) |->
        [found |-> TRUE,
         matchExpressions |-> Append(terms[i].matchExpressions, expression)]]

\* variant of AfSetTerms: no empty term is made when the object has none
AfSetTerms_NoDefaultTerm ==
    /\ afPc = "start"
    /\ VersionNodeAffinityFields(obj.kind) # "none"
    /\ Len(nodeNames) # 0
    /\ obj[VersionNodeAffinityFields(obj.kind)].state # "wrong"
    /\ LET fields == VersionNodeAffinityFields(obj.kind)
           nodeSelectorTerms == obj[fields].terms
           set == [state |-> "found",
                   terms |-> WithExpression(nodeSelectorTerms, Expression(nodeNames))]
       IN  obj' = [obj EXCEPT ![fields] = set]
    /\ afPc' = "done"
    /\ afErr' = FALSE
    /\ UNCHANGED <<nonafvars, obj0, nodeNames>>

\* NodeAffinityNames with node names: the terms are read (one empty term when
\* there are none), the expression is appended to each and the terms are set
AfSetTerms ==
    /\ afPc = "start"
    /\ VersionNodeAffinityFields(obj.kind) # "none"
    /\ Len(nodeNames) # 0
    /\ obj[VersionNodeAffinityFields(obj.kind)].state # "wrong"
    /\ LET fields == VersionNodeAffinityFields(obj.kind)
           nodeSelectorTerms ==
               IF obj[fields].state = "absent"
               THEN <<[found |-> FALSE, matchExpressions |-> <<>>]>>
               ELSE obj[fields].terms
           set == [state |-> "found",
                   terms |-> WithExpression(nodeSelectorTerms, Expression(nodeNames))]
       IN  obj' = [obj EXCEPT ![fields] = set]
    /\ afPc' = "done"
    /\ afErr' = FALSE
    /\ UNCHANGED <<nonafvars, obj0, nodeNames>>

NextAffinity ==
    \/ AfOtherKind
    \/ AfNoNames
    \/ AfNestedSliceErr
    \/ AfSetTerms

SpecAffinity == InitAffinity /\ [][NextAffinity]_vars

----------------------------------------------------------------------------
(* filter.Predicate, IsSpecialResource and NotOwned *)

\* obj.GetLabels(): nil, or a map that has the key owned or not
LabelMaps ==
    {[nil |-> TRUE, owned |-> FALSE], [nil |-> FALSE, owned |-> FALSE],
     [nil |-> FALSE, owned |-> TRUE]}

\* the metadata of the object of an event (MetaNew of an update event);
\* selfLinkSRO: the self link contains "/apis/sro.openshift.io/v"
Metas ==
    [generation : {1, 2}, resourceVersion : {"r1", "r2"}, selfLinkSRO : BOOLEAN,
     refs : SeqsUpTo({"SpecialResource", "Deployment"}, MaxRefs), labels : LabelMaps]

\* what UpdateFunc reads of MetaOld
OldMetas == [generation : {1, 2}, resourceVersion : {"r1", "r2"}, selfLinkSRO : BOOLEAN]

\* the events; objstrSRO: the printed object contains "sro.openshift.io/v"
Events ==
    [type : {"create", "delete", "generic"}, kind : {"SpecialResource", "DaemonSet", ""},
     objstrSRO : BOOLEAN, old : {[generation |-> 1, resourceVersion |-> "r1", selfLinkSRO |-> FALSE]},
     new : Metas]
        \cup [type : {"update"}, kind : {"SpecialResource", "DaemonSet", ""},
              objstrSRO : BOOLEAN, old : OldMetas, new : Metas]

IsSpecialResource(kind, objstrSRO, selfLinkSRO) ==
    \/ kind = "SpecialResource"
    \/ selfLinkSRO
    \/ kind = "" /\ objstrSRO

\* labels[owned] of a Go map: nothing is found in a nil map
LabelFound(labels) == ~labels.nil /\ labels.owned

NotOwned(meta) ==
    IF \E i \in 1..Len(meta.refs) : meta.refs[i] = "SpecialResource" THEN FALSE
    ELSE IF meta.labels.nil /\ LabelFound(meta.labels) THEN FALSE
    ELSE TRUE

InitPredicate ==
    /\ chart = <<>>
    /\ persisted = EmptyMap
    /\ RInitLocals(FALSE)
    /\ PfOff
    /\ GOff
    /\ RsOff
    /\ DtOff
    /\ NvOff
    /\ FOff
    /\ AfOff
    /\ event \in Events
    /\ Mode = ""
    /\ pdPc = "start"
    /\ admitted = FALSE

CreateFunc ==
    /\ pdPc = "start"
    /\ event.type = "create"
    /\ Mode' = "CREATE"
    /\ admitted' = IsSpecialResource(event.kind, event.objstrSRO, event.new.selfLinkSRO)
    /\ pdPc' = "done"
    /\ UNCHANGED <<nonpdvars, event>>

\* variant of UpdateFunc: the generations are not compared
UpdateFunc_NoGenerationCheck ==
    /\ pdPc = "start"
    /\ event.type = "update"
    /\ Mode' = "UPDATE"
    /\ admitted' =
         IF event.old.resourceVersion = event.new.resourceVersion THEN FALSE
         ELSE IF IsSpecialResource(event.kind, event.objstrSRO, event.old.selfLinkSRO) THEN TRUE
         ELSE IF NotOwned(event.new) THEN FALSE
         ELSE TRUE
    /\ pdPc' = "done"
    /\ UNCHANGED <<nonpdvars, event>>

UpdateFunc ==
    /\ pdPc = "start"
    /\ event.type = "update"
    /\ Mode' = "UPDATE"
    /\ admitted' =
         IF event.old.generation = event.new.generation THEN FALSE
         ELSE IF event.old.resourceVersion = event.new.resourceVersion THEN FALSE
         ELSE IF IsSpecialResource(event.kind, event.objstrSRO, event.old.selfLinkSRO) THEN TRUE
         ELSE IF NotOwned(event.new) THEN FALSE
         ELSE TRUE
    /\ pdPc' = "done"
    /\ UNCHANGED <<nonpdvars, event>>

DeleteFunc ==
    /\ pdPc = "start"
    /\ event.type = "delete"
    /\ Mode' = "DELETE"
    /\ admitted' =
         IF IsSpecialResource(event.kind, event.objstrSRO, event.new.selfLinkSRO) THEN TRUE
         ELSE IF NotOwned(event.new) THEN FALSE
         ELSE TRUE
    /\ pdPc' = "done"
    /\ UNCHANGED <<nonpdvars, event>>

GenericFunc ==
    /\ pdPc = "start"
    /\ event.type = "generic"
    /\ Mode' = "GENERIC"
    /\ admitted' =
         IF IsSpecialResource(event.kind, event.objstrSRO, event.new.selfLinkSRO) THEN TRUE
         ELSE IF NotOwned(event.new) THEN FALSE
         ELSE TRUE
    /\ pdPc' = "done"
    /\ UNCHANGED <<nonpdvars, event>>

NextPredicate ==
    \/ CreateFunc
    \/ UpdateFunc
    \/ DeleteFunc
    \/ GenericFunc

SpecPredicate == InitPredicate /\ [][NextPredicate]_vars

----------------------------------------------------------------------------
(* Properties of the reconciler *)

\* the state units of the loaded chart
ChartUnits == Range(StateUnits(chart))

\* the Helmer.Run calls made by the current reconcileChart invocation
CurCalls == SubSeq(passLog, runBase + 1, Len(passLog))

CurNames == {CurCalls[i].name : i \in 1..Len(CurCalls)}

\* the state units not yet reconciled when reconcileChart was entered
Pending == ChartUnits \ Range(reconciledInput)

\* reconcileChart is running or has returned to Reconcile
InChart == pc \in {"chart", "write"}

\* the last Helmer.Run call of the current reconcileChart invocation failed
RunFailed == Len(CurCalls) > 0 /\ ~CurCalls[Len(CurCalls)].ok

FailedUnit == CurCalls[Len(CurCalls)].name

\* reconcileChart has returned after a failed apply; the locals are still those
\* of that invocation
AfterFailedApply ==
    /\ \/ pc = "write"
       \/ pc = "idle" /\ reconcileErr \in {"chart", "status"}
    /\ RunFailed

\* C1: within one reconcileChart invocation the Helmer.Run calls are made for
\* not-yet-reconciled state units only, in strictly ascending lexical order of
\* their names (hence at most one call per unit), and a successful invocation
\* has called it for every not-yet-reconciled unit.
C1_RunsInLexicalOrder ==
    InChart =>
        /\ \A i, j \in 1..Len(CurCalls) :
               i < j => LexLess(CurCalls[i].name, CurCalls[j].name)
        /\ CurNames \subseteq Pending
        /\ (pc = "write" /\ ~retErr => CurNames = Pending)

\* C1 witness: the chart lists 20-b, 10-a, 30-c in that order and the three
\* applies were made as 10-a, 20-b, 30-c
C1_Witness ==
    /\ pc = "write"
    /\ ~retErr
    /\ StateUnits(chart) = <<Name20b, Name10a, Name30c>>
    /\ reconciledInput = <<>>
    /\ [i \in 1..Len(CurCalls) |-> CurCalls[i].name] = <<Name10a, Name20b, Name30c>>

\* C2 (as claimed): the persisted status of a version has complete = true
\* exactly when every state unit of the chart is among its reconciledUnits.
C2_CompleteIffAllReconciled ==
    \A v \in DOMAIN persisted :
        persisted[v].Complete <=>
            ChartUnits \subseteq Range(persisted[v].ReconciledTemplates)

\* C3: after a failed apply of unit u the returned list holds every unit of the
\* supplied reconciled list and every unit applied earlier in this invocation,
\* holds neither u nor a unit sorting after u, and is what a successful status
\* write stores for the version.
C3_FailureKeepsProgress ==
    AfterFailedApply =>
        /\ Range(reconciledInput) \subseteq Range(retList)
        /\ \A i \in 1..(Len(CurCalls) - 1) : CurCalls[i].name \in Range(retList)
        /\ \A n \in Range(retList) : n # FailedUnit /\ ~LexLess(FailedUnit, n)
        /\ (pc = "idle" /\ reconcileErr = "chart" =>
                persisted[CurVersion].ReconciledTemplates = retList)

\* C3 witness: entered with 10-a reconciled, 20-b failed, 30-c still to come,
\* and the status written back lists 10-a only
C3_Witness ==
    /\ pc = "idle"
    /\ reconcileErr = "chart"
    /\ RunFailed
    /\ reconciledInput = <<Name10a>>
    /\ FailedUnit = Name20b
    /\ Name30c \in ChartUnits
    /\ persisted[CurVersion].ReconciledTemplates = <<Name10a>>

\* C4: once Helmer.Run has failed for a version, no later Helmer.Run call of the
\* same Reconcile invocation is made for that version, and reconcileChart has
\* left its loop.
C4_NoRunAfterFailure ==
    \A i \in 1..Len(passLog) :
        ~passLog[i].ok =>
            /\ \A j \in (i + 1)..Len(passLog) : passLog[j].version # passLog[i].version
            /\ pc # "chart"

\* C4 witness: 10-a failed as the first apply while 20-b and 30-c were pending,
\* and it stayed the only call
C4_Witness ==
    /\ pc = "write"
    /\ RunFailed
    /\ FailedUnit = Name10a
    /\ Len(CurCalls) = 1
    /\ {Name20b, Name30c} \subseteq Pending

\* C5 (as claimed): while every resolution has produced the same version set
\* (the chart never changes) and no status write was lost, Helmer.Run has
\* succeeded at most once for each pair of cluster version and state unit.
C5_AppliedAtMostOnce ==
    history /\ Cardinality(resolvedSets) <= 1 /\ ~statusLost =>
        \A p \in Versions \X TemplateNames : applied[p] <= 1

\* C6: a reconcileChart invocation whose supplied reconciled list covers every
\* state unit of the chart makes no Helmer.Run call.
C6_CompleteInputNoRun ==
    InChart /\ ChartUnits \subseteq Range(reconciledInput) => CurCalls = <<>>

\* C6 witness: the chart has the three state units, all three were supplied as
\* reconciled, and reconcileChart returned without having called Helmer.Run
C6_Witness ==
    /\ pc = "write"
    /\ ~retErr
    /\ ChartUnits = StateNames
    /\ Range(reconciledInput) = StateNames
    /\ CurCalls = <<>>

\* C7 (as claimed): a reconcileChart invocation whose supplied reconciled list
\* covers every state unit of the chart returns the units it was given, and a
\* successful status write stores them again.
C7_CompleteInputSameOutput ==
    /\ (pc = "write" /\ ~retErr /\ ChartUnits \subseteq Range(reconciledInput) =>
            Range(retList) = Range(reconciledInput))
    /\ (pc = "loop" /\ idx > 1 /\ ChartUnits \subseteq Range(reconciledInput) =>
            Range(persisted[updateList[idx - 1].ClusterVersion].ReconciledTemplates)
                = Range(reconciledInput))

\* C8 (as claimed): a persisted version status is never removed, never loses a
\* reconciled unit, never goes from complete back to incomplete, and is
\* complete only with every state unit of the chart listed.
C8_StatusMonotonic ==
    [][ /\ \A v \in DOMAIN persisted :
              /\ v \in DOMAIN persisted'
              /\ Range(persisted[v].ReconciledTemplates)
                     \subseteq Range(persisted'[v].ReconciledTemplates)
              /\ (persisted[v].Complete => persisted'[v].Complete)
        /\ \A v \in DOMAIN persisted' :
              persisted'[v].Complete =>
                  ChartUnits \subseteq Range(persisted'[v].ReconciledTemplates)
      ]_vars

\* C9 (as claimed): during the version loop the cluster versions carried by the
\* delete candidates are exactly the versions that have a status but are absent
\* from the resolved version map.
C9_DeleteCandidates ==
    pc # "idle" =>
        {deleteList[i].ClusterVersion : i \in 1..Len(deleteList)}
            = (DOMAIN resource) \ (DOMAIN clusterVersions)

----------------------------------------------------------------------------
(* Properties of the preflight check *)

\* C10 (as claimed): when enumerating the layer digests or fetching a layer
\* failed, the check ends with an error, not with verified = false and no error.
C10_RegistryErrorIsError ==
    pfPc \in {"alert", "done"} /\ pfRegistryErr => pfErr

\* daemonSetPreflightCheck has returned without an error
PfReturned == pfVerifyCalled /\ pfPc \in {"alert", "done"} /\ ~pfErr

\* the layers of the image that hold a toolkit release
PfToolkitLayers == {i \in 1..Len(pfLayers) : pfLayers[i] \notin {"err", "none"}}

\* C11: the layers are fetched from the most recent one down, and when no
\* registry call failed the returned verified is true exactly when the most
\* recent layer holding a toolkit release exists and carries the expected kernel
\* version; more recent layers without a toolkit release do not make an error.
C11_FirstToolkitLayerDecides ==
    /\ \A p \in 1..Len(pfFetched) : pfFetched[p] = Len(pfLayers) - p + 1
    /\ (PfReturned /\ ~pfRegistryErr =>
            (pfVerified <=>
                /\ PfToolkitLayers # {}
                /\ \E i \in PfToolkitLayers :
                       /\ \A j \in PfToolkitLayers : j <= i
                       /\ pfLayers[i] = pfExpected))

\* C11 witness: the most recent layer has no toolkit release, the next holds the
\* expected kernel, the oldest another kernel; the check returned true
C11_Witness ==
    /\ PfReturned
    /\ pfLayers = <<"K2", "K1", "none">>
    /\ pfFetched = <<3, 2>>
    /\ pfVerified

\* C12: every layer fetched before the last fetched one held no toolkit release,
\* so nothing is fetched after a layer that holds one, matching or not.
C12_StopsAtFirstToolkitLayer ==
    /\ \A p \in 1..(Len(pfFetched) - 1) : pfLayers[pfFetched[p]] = "none"
    /\ (pfPc = "scan" => \A p \in 1..Len(pfFetched) : pfLayers[pfFetched[p]] = "none")

\* C12 witness: three layers, a toolkit release of another kernel in the middle
\* one only; the check is over and the oldest layer was never fetched
C12_Witness ==
    /\ pfPc = "done"
    /\ pfLayers = <<"none", "K2", "none">>
    /\ pfFetched = <<3, 2>>
    /\ ~pfVerified

\* C13 (as claimed): daemonSetPreflightCheck is invoked only for a rendered
\* bundle that holds a DaemonSet and no BuildConfig at any position.
C13_BuildConfigSkipsVerify ==
    pfVerifyCalled =>
        /\ "DaemonSet" \in Range(pfObjs)
        /\ "BuildConfig" \notin Range(pfObjs)

\* the concatenation of the graphs of the streams that answered with status 200
RECURSIVE AllNodes(_)
AllNodes(i) ==
    IF i > Len(Streams) THEN <<>>
    ELSE (IF gResp[i].kind = "ok" THEN gResp[i].nodes ELSE <<>>) \o AllNodes(i + 1)

\* C14 (as claimed): a returned image is the payload of the first node, in the
\* order fast, stable, candidate and in graph order within a stream, that has
\* the requested version and a non-empty payload.
C14_FirstMatchWins ==
    gPc = "done" /\ gRet.err = "none" =>
        gRet.image = ScanNodes(AllNodes(1), "")

\* C15: a stream whose request fails or answers with a status other than 200 is
\* the last stream queried, the call returns that error and no image, and the
\* streams are queried in the order fast, stable, candidate.
C15_ErrorAborts ==
    /\ \A i \in 1..Len(gQueried) : gQueried[i] = Streams[i]
    /\ \A i \in 1..Len(gQueried) :
           gResp[i].kind # "ok" =>
               /\ i = Len(gQueried)
               /\ gPc = "done"
               /\ gRet = [image |-> "", err |-> gResp[i].kind]

\* C15 witness: fast holds the version, stable answers with another status code
\* and candidate holds the version too; stable was the last stream queried
C15_Witness ==
    /\ gPc = "done"
    /\ gResp[1] = [kind |-> "ok", nodes |-> <<[version |-> Full, payload |-> "A"]>>]
    /\ gResp[2].kind = "status"
    /\ gResp[3] = [kind |-> "ok", nodes |-> <<[version |-> Full, payload |-> "B"]>>]
    /\ gQueried = <<"fast", "stable">>
    /\ gRet = [image |-> "", err |-> "status"]

\* the sample strings by what the semantic-version grammar and the two
\* separators make of them
SemverSamples == {Elem4_12_5, Elem1_0_0rc1, Elem1_0_0b1}
ImageSamples == {ElemDigest, ElemTag}
MalformedSamples == {ElemLatest, Elem4_12, Elem01_2_3, Elem1_2_3dash, Elem1_2_3pre01, ElemEmpty}

\* the steps whose failure does not end the resolution
Skippable == {"notfound", "path"}

\* C16: a string that is a semantic version goes to the upgrade graph; a string
\* that is none but holds "@" or ":" is the image itself and no graph query is
\* made for it; any other string ends the resolution with the format error.
C16_Classification ==
    rsRoute # "none" =>
        /\ rsElem \in SemverSamples =>
               /\ rsRoute = "version"
               /\ (rsPc = "graph" \/ rsElemNet >= 1)
        /\ rsElem \in ImageSamples =>
               /\ rsRoute = "image"
               /\ rsImage = rsElem
               /\ rsPc # "graph"
               /\ (rsPc = "info" => rsElemNet = 0)
               /\ rsElemNet <= 1
        /\ rsElem \in MalformedSamples =>
               /\ rsRoute = "format"
               /\ rsPc = "done"
               /\ rsRet = "format"
               /\ rsRetMap.nil

\* C16 witness: "1.2.3:1" was taken as the image and is the OSImage of the
\* returned entry
C16_Witness ==
    /\ rsRet = "ok"
    /\ rsElem = ElemTag
    /\ rsRoute = "image"
    /\ \E v \in DOMAIN rsRetMap.m : rsRetMap.m[v].OSImage = ElemTag

\* C17 (as claimed): when the format error is returned, no upgrade-graph query
\* and no registry call has been made in this resolution.
C17_FormatErrorBeforeAnyNetwork ==
    rsRet = "format" => ~rsNetUsed

\* C17 (amended): when the format error is returned, no upgrade-graph query and
\* no registry call has been made for the malformed string itself.
C17_FormatErrorBeforeOwnNetwork ==
    rsRet = "format" => rsRoute = "format" /\ rsElemNet = 0

\* C17 witness: a format error returned after earlier strings were resolved over
\* the network
C17_Witness ==
    /\ rsRet = "format"
    /\ rsNetUsed
    /\ versionMap # EmptyMap
    /\ rsElem = ElemLatest

\* C18 (as claimed): once any step other than a not-found retrieval has failed,
\* the resolution is over with an error and a nil map.
C18_AnyFailureAborts ==
    rsFailures \subseteq {"notfound"}
        \/ (rsPc = "done" /\ rsRet \notin {"none", "ok"} /\ rsRetMap.nil)

\* C18 (amended): once a step other than a not-found retrieval or a path
\* extraction has failed, the resolution is over, returns that step's error and a
\* nil map, whatever versionMap holds; a map is returned only when no such step
\* failed.
C18_HardFailureAborts ==
    /\ (rsFailures \subseteq Skippable
           \/ /\ rsPc = "done"
              /\ rsRet \in rsFailures \ Skippable
              /\ rsRetMap = [nil |-> TRUE, m |-> EmptyMap])
    /\ (rsRet = "ok" => ~rsRetMap.nil /\ rsFailures \subseteq Skippable)

\* C18 witness: the registry walk fails after an entry was put into versionMap;
\* the returned map is nil
C18_Witness ==
    /\ rsRet = "registry"
    /\ versionMap # EmptyMap
    /\ rsRetMap.nil

\* C19: a getAllResources call that ends in not-found leaves versionMap as it is
\* and moves on to the next watch spec without returning; one that ends in
\* another error returns the error and a nil map.
C19_NotFoundSwallowed ==
    [][/\ (rsPc = "watch" /\ rsW <= Len(watchList) /\ rsLastGet' = "notfound" =>
               /\ versionMap' = versionMap
               /\ rsW' = rsW + 1
               /\ rsPc' = "watch"
               /\ rsRet' = "none")
       /\ (rsPc = "watch" /\ rsW <= Len(watchList) /\ rsLastGet' = "error" =>
               /\ rsPc' = "done"
               /\ rsRet' = "retrieval"
               /\ rsRetMap'.nil)]_vars

\* C19 witness: two named watch specs, the first lookup ended in not-found, the
\* second contributed an entry and the resolution succeeded
C19_Witness ==
    /\ watchList = <<TRUE, TRUE>>
    /\ "notfound" \in rsFailures
    /\ rsLastGet = "ok"
    /\ rsRet = "ok"
    /\ rsRetMap.m # EmptyMap

\* C20: the map of a successful resolution holds, for every clusterVersion an
\* info was produced for and for no other key, the info produced last for that
\* clusterVersion.
C20_LastWriterWins ==
    rsRet = "ok" =>
        /\ rsRetMap = [nil |-> FALSE, m |-> rsLast]
        /\ \A v \in DOMAIN rsRetMap.m : rsRetMap.m[v].ClusterVersion = v

\* C20 witness: "v1" was produced more than once, the last time for the image
\* "r/i@s", and that is the returned entry
C20_Witness ==
    /\ rsRet = "ok"
    /\ rsOverwrote
    /\ DOMAIN rsRetMap.m = {"v1"}
    /\ rsElem = ElemDigest
    /\ rsRetMap.m["v1"].OSImage = ElemDigest

\* UpdateInfo has been entered for the entry at dtI
UiStarted == dtPc \in {"kernel", "rt", "ret"} \/ (dtPc = "done" /\ dtk # ZeroDTK)

\* the block of UpdateInfo for key is over (or has ended the process)
UiBlockOver(key) ==
    \/ key = dtk.KernelFullVersion /\ dtPc \in {"rt", "ret", "done"}
    \/ key = dtk.RTKernelFullVersion /\ dtPc \in {"ret", "done"}

\* the position of the first entry that yields a last layer, 0 when none does
FirstYield ==
    IF \E i \in 1..Len(entries) : entries[i].kind # "nolayer"
    THEN CHOOSE i \in 1..Len(entries) :
             /\ entries[i].kind # "nolayer"
             /\ \A j \in 1..(i - 1) : entries[j].kind = "nolayer"
    ELSE 0

\* a version with "." + architecture appended unless it already ends in the
\* architecture
WithArchSuffix(s) ==
    IF Len(s) >= Len(RunningArch)
           /\ SubSeq(s, Len(s) - Len(RunningArch) + 1, Len(s)) = RunningArch
    THEN s
    ELSE s \o DotArch

\* C21: a record at the kernel key or the RT-kernel key whose node-observed
\* OSVersion differs from the toolkit's is left as it was passed in, and once
\* the block for that key has run the call has ended as a fatal error.
C21_MismatchIsFatal ==
    UiStarted =>
        \A key \in {dtk.KernelFullVersion, dtk.RTKernelFullVersion} \cap DOMAIN info :
            dtInfo0[key].OSVersion # dtk.OSVersion =>
                /\ info[key] = dtInfo0[key]
                /\ (UiBlockOver(key) => dtOutcome = "exit" /\ dtNil)

\* C21 witness: the kernel record matched and got the release, the RT-kernel
\* record has another OSVersion: the call ended there and the record is untouched
C21_Witness ==
    /\ dtOutcome = "exit"
    /\ dtk.KernelFullVersion = KArch
    /\ dtk.RTKernelFullVersion = RArch
    /\ info[KArch].DriverToolkit = dtk
    /\ dtInfo0[RArch].OSVersion = Os90
    /\ info[RArch] = dtInfo0[RArch]

\* the release of the entry at dtI as it is passed to UpdateInfo
PassedDtk == [entries[dtI].dtk EXCEPT !.ImageURL = entries[dtI].imageURL]

\* the keys UpdateInfo has to look up for the release passed to it: each
\* version the release has, with "." + architecture appended unless the
\* version ends in the architecture already
MatchKeys ==
    {WithArchSuffix(PassedDtk.KernelFullVersion)}
        \cup (IF PassedDtk.RTKernelFullVersion = <<>> THEN {}
              ELSE {WithArchSuffix(PassedDtk.RTKernelFullVersion)})

\* C22 (as claimed): after a successful UpdateInfo every record under the
\* normalized kernel version or RT-kernel version of the release has the release
\* attached, with the image URL passed in; every record with a release attached
\* has that release's OSVersion; the other records are as they were passed in.
C22_MatchedRecordsAttached ==
    UiStarted /\ dtOutcome = "ok" =>
        \A key \in DOMAIN info :
            /\ key \in MatchKeys =>
                   /\ info[key].DriverToolkit # ZeroDTK
                   /\ info[key].DriverToolkit.ImageURL = entries[dtI].imageURL
                   /\ info[key].DriverToolkit.OSVersion = PassedDtk.OSVersion
            /\ info[key].DriverToolkit # ZeroDTK =>
                   info[key].OSVersion = info[key].DriverToolkit.OSVersion
            /\ key \notin MatchKeys => info[key] = dtInfo0[key]

\* C23: when neither the normalized kernel version nor the normalized RT-kernel
\* version is a key of the node map, UpdateInfo returns the not-found error and a
\* nil map.
C23_NoMatchFails ==
    UiStarted /\ dtPc = "done" =>
        ((MatchKeys \cap DOMAIN dtInfo0 = {}) => dtOutcome = "notfound" /\ dtNil)

\* C23 witness: nodes run the RT kernel only, the release is for the other
\* kernel and has no RT kernel version
C23_Witness ==
    /\ UiStarted
    /\ dtOutcome = "notfound"
    /\ DOMAIN dtInfo0 = {RArch}
    /\ PassedDtk.KernelFullVersion = KPlain
    /\ PassedDtk.RTKernelFullVersion = <<>>
    /\ info = dtInfo0

\* C24: the kernel version used for matching is the release's kernel version
\* with "." + architecture appended exactly when it does not end in it yet; a
\* release whose kernel version has the suffix is used as passed; and passing
\* the normalized release through the normalization again changes nothing.
C24_SuffixAppendedOnce ==
    UiStarted =>
        /\ dtk.KernelFullVersion = WithArchSuffix(PassedDtk.KernelFullVersion)
        /\ (WithArchSuffix(PassedDtk.KernelFullVersion) = PassedDtk.KernelFullVersion =>
                dtk = PassedDtk)
        /\ NormalizeArch(dtk) = dtk

\* C24 witness: the release came with "4.18", the record of the node running
\* "4.18.x86_64" holds it with the suffix appended once
C24_Witness ==
    /\ UiStarted
    /\ dtOutcome = "ok"
    /\ PassedDtk.KernelFullVersion = KPlain
    /\ KArch \in DOMAIN info
    /\ info[KArch].DriverToolkit.KernelFullVersion = KPlain \o DotArch

\* C27: the entries are examined in the given order, every examined entry but
\* the last has no last layer, and a finished call either stopped at the first
\* entry with a last layer, attaching that entry's image if any, or found no
\* such entry and returned the node map as passed in, without error.
C27_FirstYieldingEntryDecides ==
    /\ \A p \in 1..Len(dtExamined) : dtExamined[p] = p
    /\ \A p \in 1..(Len(dtExamined) - 1) : entries[p].kind = "nolayer"
    /\ (dtPc = "done" =>
            IF FirstYield = 0
            THEN /\ Len(dtExamined) = Len(entries)
                 /\ dtOutcome = "ok"
                 /\ ~dtNil
                 /\ info = dtInfo0
            ELSE /\ Len(dtExamined) = FirstYield
                 /\ (entries[FirstYield].kind = "dtk" =>
                         dtk.ImageURL = entries[FirstYield].imageURL)
                 /\ (entries[FirstYield].kind # "dtk" => dtk = ZeroDTK /\ info = dtInfo0))

\* C27 witness: no last layer for the first entry, the second holds a toolkit
\* image whose release was attached, the third holds another and was not examined
C27_Witness ==
    /\ dtOutcome = "ok"
    /\ Len(entries) = 3
    /\ entries[1].kind = "nolayer"
    /\ entries[2].kind = "dtk" /\ entries[2].imageURL = "imgA"
    /\ entries[3].kind = "dtk" /\ entries[3].imageURL = "imgB"
    /\ dtExamined = <<1, 2>>
    /\ \E key \in DOMAIN info : info[key].DriverToolkit.ImageURL = "imgA"

\* C28: when the first entry with a last layer has a version and no toolkit
\* image, the finished call examined nothing after it and returned the node map
\* as passed in, without error.
C28_NoToolkitImageReturnsInfo ==
    dtPc = "done" /\ FirstYield # 0 /\ entries[FirstYield].kind = "nodtk" =>
        /\ dtOutcome = "ok"
        /\ ~dtNil
        /\ info = dtInfo0
        /\ Len(dtExamined) = FirstYield

\* C28 witness: a release without toolkit image followed by one with a toolkit
\* image that would match a node
C28_Witness ==
    /\ dtPc = "done"
    /\ Len(entries) = 2
    /\ entries[1].kind = "nodtk"
    /\ entries[2].kind = "dtk" /\ entries[2].dtk.KernelFullVersion = KArch
    /\ DOMAIN dtInfo0 = {KArch}
    /\ dtInfo0[KArch].OSVersion = Os84
    /\ dtOutcome = "ok"
    /\ info = dtInfo0

\* the node lacks one of the two labels every node must have
LacksLabel(labels) == LKernel \notin DOMAIN labels \/ LVersionId \notin DOMAIN labels

\* C25: a finished NodeVersionInfo returned an error and a nil map if some node
\* lacks the kernel-version.full or the VERSION_ID label, and the map without
\* error if every node has both.
C25_MissingLabelFailsBuild ==
    nvPc = "done" =>
        IF \E i \in 1..Len(items) : LacksLabel(items[i])
        THEN nvOutcome = "error" /\ nvNil
        ELSE nvOutcome = "ok" /\ ~nvNil

\* C25 witness: the first node has every label, the second has no VERSION_ID;
\* the record built for the first node is not returned
C25_Witness ==
    /\ nvPc = "done"
    /\ Len(items) = 2
    /\ ~LacksLabel(items[1])
    /\ LKernel \in DOMAIN items[2]
    /\ LVersionId \notin DOMAIN items[2]
    /\ nvInfo # EmptyMap
    /\ nvOutcome = "error"
    /\ nvNil

\* C26: the keys of a returned map are the kernel versions of the nodes, and
\* the record under k comes from the last node with kernel version k: with a
\* RHEL_VERSION label v, OSVersion v, OSMajor "rhel" + first character of v and
\* OSMajorMinor "rhel" + v; without it, OSVersion major.minor, OSMajor id+major
\* and OSMajorMinor id+major.minor from the three other labels.
C26_RecordFromLastNode ==
    nvOutcome = "ok" =>
        /\ DOMAIN nvInfo = {items[i][LKernel] : i \in 1..Len(items)}
        /\ \A key \in DOMAIN nvInfo :
               LET last == CHOOSE i \in 1..Len(items) :
                               /\ items[i][LKernel] = key
                               /\ \A j \in (i + 1)..Len(items) : items[j][LKernel] # key
                   n == items[last]
                   id == IF LId \in DOMAIN n THEN n[LId] ELSE <<>>
                   major == IF LMajor \in DOMAIN n THEN n[LMajor] ELSE <<>>
                   minor == IF LMinor \in DOMAIN n THEN n[LMinor] ELSE <<>>
               IN  IF LRhel \in DOMAIN n
                   THEN /\ nvInfo[key].OSVersion = n[LRhel]
                        /\ nvInfo[key].OSMajor = <<114, 104, 101, 108, n[LRhel][1]>>
                        /\ nvInfo[key].OSMajorMinor = <<114, 104, 101, 108>> \o n[LRhel]
                   ELSE /\ nvInfo[key].OSVersion = major \o <<46>> \o minor
                        /\ nvInfo[key].OSMajor = id \o major
                        /\ nvInfo[key].OSMajorMinor = id \o major \o <<46>> \o minor

\* C26 witness: two nodes run the same kernel, the first with RHEL_VERSION
\* "8.4", the second without it and with ID "rhcos", major "4", minor "8"; the
\* record is "4.8", "rhcos4", "rhcos4.8"
C26_Witness ==
    /\ nvOutcome = "ok"
    /\ Len(items) = 2
    /\ items[1][LKernel] = KArch /\ items[2][LKernel] = KArch
    /\ LRhel \in DOMAIN items[1] /\ items[1][LRhel] = Os84
    /\ LRhel \notin DOMAIN items[2]
    /\ nvInfo[KArch].OSVersion = <<52, 46, 56>>
    /\ nvInfo[KArch].OSMajor = <<114, 104, 99, 111, 115, 52>>
    /\ nvInfo[KArch].OSMajorMinor = <<114, 104, 99, 111, 115, 52, 46, 56>>

\* C29: filterResources called without selectors returns the objects it was
\* given, the same ones in the same order, and no error.
C29_NoSelectorsIdentity ==
    fPc = "done" /\ Len(selectors) = 0 => fRet = fObjs /\ ~fErr

\* C29 witness: two objects, the same name twice, the second one an object
\* GetJSONPath would fail on; both are returned
C29_Witness ==
    /\ fPc = "done"
    /\ selectors = <<>>
    /\ Len(fObjs) = 2
    /\ fObjs[1].name = "o1" /\ fObjs[2].name = "o1"
    /\ fObjs[2].res.err
    /\ fRet = fObjs

\* C30: filterResources called with one selector and returning without error
\* returns, in input order, exactly the objects for which (some value at the
\* path equals selector.Value) differs from selector.Exclude; an object without
\* a value at the path is returned exactly when Exclude is set.
C30_SingleSelector ==
    fPc = "done" /\ Len(selectors) = 1 /\ ~fErr =>
        LET Kept(o) ==
                (\E i \in 1..Len(o.res.vals) : o.res.vals[i] = selectors[1].Value)
                    # selectors[1].Exclude
        IN  fRet = SelectSeq(fObjs, Kept)

\* C30 witness: the selector excludes "a"; the first object has no value at the
\* path and is returned, the second has "b" and "a" and is not
C30_Witness ==
    /\ fPc = "done"
    /\ ~fErr
    /\ selectors = <<[Value |-> "a", Exclude |-> TRUE]>>
    /\ Len(fObjs) = 2
    /\ fObjs[1].res = [err |-> FALSE, vals |-> <<>>]
    /\ fObjs[2].res = [err |-> FALSE, vals |-> <<"b", "a">>]
    /\ fRet = <<fObjs[1]>>

\* what one selector keeps of the object list, in the order of the list
KeptBy(sel, os) ==
    LET Kept(o) ==
            (\E i \in 1..Len(o.res.vals) : o.res.vals[i] = sel.Value) # sel.Exclude
    IN  SelectSeq(os, Kept)

RECURSIVE ConcatKept(_, _)
\* the single-selector results over the same list, concatenated in selector order
ConcatKept(sels, os) ==
    IF sels = <<>> THEN <<>>
    ELSE KeptBy(Head(sels), os) \o ConcatKept(Tail(sels), os)

\* C31: with several selectors and no error, filterResources returns the
\* concatenation, in selector order, of what each selector alone keeps of the
\* original list; nothing is deduplicated and nothing is intersected.
C31_SelectorsConcatenate ==
    fPc = "done" /\ Len(selectors) >= 2 /\ ~fErr =>
        fRet = ConcatKept(selectors, fObjs)

\* C31 witness: two selectors; the first object is kept by both and is returned
\* twice, the second is kept by the second selector only
C31_Witness ==
    /\ fPc = "done"
    /\ ~fErr
    /\ selectors = <<[Value |-> "a", Exclude |-> FALSE], [Value |-> "b", Exclude |-> TRUE]>>
    /\ Len(fObjs) = 2
    /\ fObjs[1].res.vals = <<"a">>
    /\ fObjs[2].res.vals = <<>>
    /\ ~fObjs[2].res.err
    /\ fRet = <<fObjs[1], fObjs[1], fObjs[2]>>

\* C32: an attempt on a version (reconcileChart) ends with its result waiting
\* to be written; the step that follows sets the status of that version from
\* the result, whether the attempt failed or not, and calls StatusUpdate. Only
\* after a StatusUpdate that stored the snapshot does the next attempt start or
\* the failure of the attempt reach the caller; a StatusUpdate that fails is
\* itself what Reconcile returns.
C32_WriteBackAfterEachAttempt ==
    [][/\ pc = "loop" /\ pc' # "loop" /\ idx <= Len(updateList) => pc' \in {"chart", "write"}
       /\ pc = "chart" /\ pc' # "chart" => pc' = "write"
       /\ pc = "write" =>
            /\ resource' = MapSet(resource, CurVersion, VersionStatus(retList))
            /\ \/ persisted' = resource' /\ pc' = (IF retErr THEN "idle" ELSE "loop")
               \/ reconcileErr' = "status" /\ pc' = "idle" /\ persisted' = persisted
            /\ reconcileErr' = "chart" => retErr /\ persisted' = resource'
            /\ pc' = "loop" => persisted' = resource']_vars

\* C32 witness: the second version's attempt failed after one unit was applied,
\* the failure was returned, and the stored snapshot has the statuses of both
\* attempts
C32_Witness ==
    /\ pc = "idle"
    /\ reconcileErr = "chart"
    /\ idx = 2
    /\ Len(updateList) = 2
    /\ updateList[1].ClusterVersion # updateList[2].ClusterVersion
    /\ persisted = resource
    /\ DOMAIN persisted = Versions
    /\ Len(persisted[updateList[2].ClusterVersion].ReconciledTemplates) = 1
    /\ Len(passLog) >= 2

\* C33: once a Helmer.Run call of a Reconcile invocation has failed, it is the
\* last call of the invocation (the unit is not tried again and no other version
\* gets a call), the version loop is not entered again, and the invocation
\* returns an error: that of the attempt, or that of the StatusUpdate call made
\* on the way out when this one fails too.
C33_FailureAbortsInvocation ==
    \A i \in 1..Len(passLog) :
        ~passLog[i].ok =>
            /\ i = Len(passLog)
            /\ pc \in {"write", "idle"}
            /\ idx <= Len(updateList)
            /\ updateList[idx].ClusterVersion = passLog[i].version
            /\ pc = "idle" => reconcileErr \in {"chart", "status"}

\* C33 witness: two versions to reconcile, the first unit of the first version
\* fails; the invocation is over with the error and the second version got no call
C33_Witness ==
    /\ pc = "idle"
    /\ reconcileErr = "chart"
    /\ Len(updateList) = 2
    /\ updateList[1].ClusterVersion # updateList[2].ClusterVersion
    /\ idx = 1
    /\ Len(passLog) = 1
    /\ ~passLog[1].ok
    /\ Len(chart) = 3

\* C34: node names given (at least one) for a Pod, DaemonSet, Deployment or
\* StatefulSet that has no node selector terms: the call returns no error and
\* the object then has exactly one term with exactly one matchExpression, key
\* kubernetes.io/hostname, operator In, values the node names in the given
\* order; the term is under spec.affinity for a Pod and under
\* spec.template.spec.affinity for the other three, and the other path is as
\* it was.
C34_OneTermOneExpression ==
    /\ afPc = "done"
    /\ Len(nodeNames) # 0
    /\ obj0.kind \in {"Pod", "DaemonSet", "Deployment", "StatefulSet"}
    /\ (IF obj0.kind = "Pod" THEN obj0.pod ELSE obj0.tpl).state = "absent"
    =>
    LET expected ==
            [state |-> "found",
             terms |-> <<[found |-> TRUE,
                          matchExpressions |->
                              <<[key |-> "kubernetes.io/hostname",
                                 operator |-> "In",
                                 values |-> nodeNames]>>]>>]
    IN  /\ ~afErr
        /\ obj.kind = obj0.kind
        /\ IF obj0.kind = "Pod"
           THEN obj.pod = expected /\ obj.tpl = obj0.tpl
           ELSE obj.tpl = expected /\ obj.pod = obj0.pod

\* C34 witness: a DaemonSet without terms at either path and the names
\* node-2, node-1; after the call the term is under the template path only
C34_Witness ==
    /\ afPc = "done"
    /\ nodeNames = <<"node-2", "node-1">>
    /\ obj0.kind = "DaemonSet"
    /\ obj0.tpl.state = "absent"
    /\ obj0.pod.state = "absent"
    /\ obj.pod.state = "absent"
    /\ Len(obj.tpl.terms) = 1
    /\ Len(obj.tpl.terms[1].matchExpressions) = 1
    /\ obj.tpl.terms[1].matchExpressions[1].values = <<"node-2", "node-1">>

\* C35: the working bundle of every Helmer.Run call holds the regular templates
\* of the loaded bundle, in its order, followed by the one state template that
\* is being applied, so exactly one state template and none of an earlier
\* step; and no step of the reconciler changes the loaded bundle.
C35_WorkingBundle ==
    /\ [](\A i \in 1..Len(passLog) :
            LET call == passLog[i]
                regular == SelectSeq(chart, LAMBDA n : ~ValidStateName(n))
            IN  /\ ValidStateName(call.name)
                /\ call.step = Append(regular, call.name)
                /\ Cardinality({j \in 1..Len(call.step) : ValidStateName(call.step[j])}) = 1)
    /\ [][chart' = chart]_vars

\* C35 witness: a bundle with the regular template and three state templates;
\* the second call of the invocation got the regular template and 20-b only
C35_Witness ==
    /\ Len(chart) = 4
    /\ Len(passLog) = 2
    /\ passLog[1].step = <<NameCrd, Name10a>>
    /\ passLog[2].step = <<NameCrd, Name20b>>

\* C36 (as claimed): while reconcileChart runs for a version, or its result is
\* being written, no earlier element of updateList of the same Reconcile
\* invocation was for that version: each version is reconciled at most once.
C36_EachVersionOnce ==
    pc \in {"chart", "write"} =>
        \A i \in 1..(idx - 1) : updateList[i].ClusterVersion # CurVersion

\* C37 (as claimed): the versions used for matching are the release's kernel
\* version and RT-kernel version, each with "." + architecture appended exactly
\* when that version does not end in the architecture yet.
C37_EachVersionSuffixedOnce ==
    UiStarted =>
        /\ dtk.KernelFullVersion = WithArchSuffix(PassedDtk.KernelFullVersion)
        /\ PassedDtk.RTKernelFullVersion # <<>> =>
               dtk.RTKernelFullVersion = WithArchSuffix(PassedDtk.RTKernelFullVersion)

\* C38: an update event whose old and new object have the same
\* metadata.generation is not admitted, whatever the kind of the object, its
\* self link, its owners, its labels and its resource versions.
C38_SameGenerationNotAdmitted ==
    pdPc = "done" /\ event.type = "update"
        /\ event.old.generation = event.new.generation => ~admitted

\* C38 witness: an update of a SpecialResource, owned and labelled, with a new
\* resource version and the generation it had: not admitted
C38_Witness ==
    /\ pdPc = "done"
    /\ Mode = "UPDATE"
    /\ event.kind = "SpecialResource"
    /\ event.old.generation = 2
    /\ event.new.generation = 2
    /\ event.old.resourceVersion # event.new.resourceVersion
    /\ event.new.labels.owned
    /\ Len(event.new.refs) = 1
    /\ event.new.refs[1] = "SpecialResource"
    /\ ~admitted

\* C39 (as claimed): NotOwned is true exactly for an object that has neither an
\* owner reference of kind SpecialResource nor the label owned, and a delete or
\* generic event for an object with the label is admitted.
C39_LabelledIsOwned ==
    LET hasRef == \E i \in 1..Len(event.new.refs) : event.new.refs[i] = "SpecialResource"
        hasLabel == ~event.new.labels.nil /\ event.new.labels.owned
    IN  /\ NotOwned(event.new) <=> ~(hasRef \/ hasLabel)
        /\ pdPc = "done" /\ event.type \in {"delete", "generic"} /\ hasLabel => admitted

\* C40: a PreflightUpgradeCheck that returns an error has made no
\* SetUpgradeAlert call; one that returns nil has made exactly one, with 0 when
\* verified is true (the image check having run or not) and with 1 when it is
\* false; and the alert changes in no step other than that call.
C40_AlertFollowsVerified ==
    /\ [](pfPc = "done" =>
            IF pfErr THEN pfAlertCalls = 0
            ELSE /\ pfAlertCalls = 1
                 /\ pfAlert = (IF pfVerified THEN 0 ELSE 1))
    /\ [][pfAlertCalls' = pfAlertCalls => pfAlert' = pfAlert]_vars

\* C40 witness: a BuildConfig comes first, so the image check was skipped; the
\* check returned nil and the alert was set to 0
C40_Witness ==
    /\ pfPc = "done"
    /\ ~pfErr
    /\ Len(pfObjs) = 2
    /\ pfObjs[1] = "BuildConfig"
    /\ ~pfVerifyCalled
    /\ pfVerified
    /\ pfAlertCalls = 1
    /\ pfAlert = 0

====
